---- MODULE Spec2Model ----
(***************************************************************************)
(* The layout generation pipeline of the home design assistant:            *)
(* AIService (src/ai_services.py), generate_layout_ideas and the session   *)
(* handling of main (src/app.py), and the stand-alone text generators      *)
(* (src/utils/gemini_generator.py, src/utils/openai_generator.py).         *)
(*                                                                         *)
(* Python values.  A str that the code takes apart (the provider's text,   *)
(* a layout description) is a sequence of one-character strings.  A str    *)
(* that the code only compares or looks up (a room type, a style, an URL   *)
(* of the curated table) is a TLA+ string.  A str that the code puts       *)
(* together (an f-string, a join) is the sequence of its pieces, whose     *)
(* concatenation is the str; "" contributes no piece.  A value that a      *)
(* function hands back is a record [t, v]: t = "str" with the text v,      *)
(* t = "None", or t = "raise" with the exception's message v.              *)
(*                                                                         *)
(* A request runs from network call to network call: each action is the    *)
(* code between the answer to one outbound call and the sending of the     *)
(* next, and what the remote service does is the action's input.  The      *)
(* clock is read in whole seconds, by time.time() and by datetime.now().   *)
(***************************************************************************)
EXTENDS Integers, Sequences, FiniteSets, TLC

\* ------------------------------------------------------------------------
\* Bounds of the model
\* ------------------------------------------------------------------------

\* Longest provider text, in tokens, that the parser is applied to.
MaxTokens == 7

\* ------------------------------------------------------------------------
\* Python str operations on sequences of characters
\* ------------------------------------------------------------------------

\* A character outside ASCII is written as the six characters of its escape,
\* backslash, u and four hexadecimal digits: the no-break space U+00A0 is
\* "\\u00a0".  The control characters of ASCII without an escape of their own
\* (U+000B, U+001C to U+001F) are written as themselves.

\* Characters that str.strip() removes: the 29 for which str.isspace() holds.
Whitespace ==
    {"\t", "\n", "", "\f", "\r", "", "", "", "", " ",
     "\\u0085", "\\u00a0", "\\u1680", "\\u2000", "\\u2001",
     "\\u2002", "\\u2003", "\\u2004", "\\u2005", "\\u2006",
     "\\u2007", "\\u2008", "\\u2009", "\\u200a", "\\u2028",
     "\\u2029", "\\u202f", "\\u205f", "\\u3000"}

\* The marker literal of _parse_layout_response.
LAYOUT == <<"L", "A", "Y", "O", "U", "T">>

\* The separator literal of layout_text.split(":", 1).
COLON == <<":">>

\* sub occurs in s at index i.
StartsAt(s, sub, i) ==
    /\ i + Len(sub) - 1 <= Len(s)
    /\ SubSeq(s, i, i + Len(sub) - 1) = sub

\* str.find from index i on: the lowest index of an occurrence, 0 for none.
RECURSIVE Find(_, _, _)
Find(s, sub, i) ==
    IF i + Len(sub) - 1 > Len(s) THEN 0
    ELSE IF StartsAt(s, sub, i) THEN i
    ELSE Find(s, sub, i + 1)

\* str.split(sep): the pieces between the occurrences of sep, scanned from
\* the left without overlap; one piece, s itself, when sep does not occur.
RECURSIVE Split(_, _)
Split(s, sep) ==
    LET p == Find(s, sep, 1)
    IN  IF p = 0 THEN <<s>>
        ELSE <<SubSeq(s, 1, p - 1)>> \o Split(SubSeq(s, p + Len(sep), Len(s)), sep)

\* str.split(sep, 1): at most one cut, at the first occurrence.
SplitOnce(s, sep) ==
    LET p == Find(s, sep, 1)
    IN  IF p = 0 THEN <<s>>
        ELSE <<SubSeq(s, 1, p - 1), SubSeq(s, p + Len(sep), Len(s))>>

RECURSIVE LStrip(_)
LStrip(s) ==
    IF s # <<>> /\ Head(s) \in Whitespace THEN LStrip(Tail(s)) ELSE s

RECURSIVE RStrip(_)
RStrip(s) ==
    IF s # <<>> /\ s[Len(s)] \in Whitespace THEN RStrip(SubSeq(s, 1, Len(s) - 1)) ELSE s

\* Strip with the right end left as it is.
StripLeftOnly(s) == LStrip(s)

\* str.strip()
Strip(s) == RStrip(LStrip(s))

\* seq[-1]
Last(seq) == seq[Len(seq)]

\* ------------------------------------------------------------------------
\* AIService._parse_layout_response
\* ------------------------------------------------------------------------

\* The body of the for loop over parts[1:]: parts[k..] are still to be
\* visited, layouts is the list built so far.
RECURSIVE ParseLoop(_, _, _)
ParseLoop(parts, k, layouts) ==
    IF k > Len(parts) THEN layouts
    ELSE LET layout_text == Strip(parts[k])
             layout_desc == Strip(Last(SplitOnce(layout_text, COLON)))
         IN  IF layout_text # <<>> /\ layout_desc # <<>>
             THEN ParseLoop(parts, k + 1, Append(layouts, layout_desc))
             ELSE ParseLoop(parts, k + 1, layouts)

\* _parse_layout_response with the loop over parts instead of parts[1:].
_parse_layout_response_keeps_preamble(response) ==
    LET parts   == Split(response, LAYOUT)
        layouts == ParseLoop(parts, 1, <<>>)
    IN  IF layouts = <<>> /\ Strip(response) # <<>>
        THEN <<Strip(response)>>
        ELSE layouts

_parse_layout_response(response) ==
    LET parts   == Split(response, LAYOUT)
        layouts == ParseLoop(parts, 2, <<>>)
    IN  IF layouts = <<>> /\ Strip(response) # <<>>
        THEN <<Strip(response)>>
        ELSE layouts

\* ------------------------------------------------------------------------
\* Room and style normalisation: AIService._map_room_type, _map_style
\* ------------------------------------------------------------------------

\* The dict literal `mapping` of _map_room_type.
room_mapping ==
    "Living Room" :> "living" @@
    "Bedroom" :> "bedroom" @@
    "Master Bedroom" :> "bedroom" @@
    "Children's Room" :> "bedroom" @@
    "Kitchen" :> "kitchen" @@
    "Bathroom" :> "bathroom" @@
    "Home Office" :> "office" @@
    "Study Room" :> "office" @@
    "Dining Room" :> "dining"

\* The dict literal `mapping` of _map_style.
style_mapping ==
    "Modern" :> "modern" @@
    "Contemporary" :> "modern" @@
    "Traditional" :> "traditional" @@
    "Minimalist" :> "scandinavian" @@
    "Scandinavian" :> "scandinavian" @@
    "Industrial" :> "industrial" @@
    "Bohemian" :> "bohemian" @@
    "Rustic" :> "traditional" @@
    "Mid-Century Modern" :> "modern" @@
    "Art Deco" :> "modern" @@
    "Mediterranean" :> "traditional" @@
    "Farmhouse" :> "traditional"

\* dict.get(key, default)
DictGet(dict, key, default) ==
    IF key \in DOMAIN dict THEN dict[key] ELSE default

_map_room_type(room_type) == DictGet(room_mapping, room_type, "living")

\* _map_style with mapping.get(style, style).
_map_style_passes_unknown(style) == DictGet(style_mapping, style, style)

_map_style(style) == DictGet(style_mapping, style, "modern")

\* ------------------------------------------------------------------------
\* The curated table: the dict literal curated_images of _get_curated_image
\* ------------------------------------------------------------------------

curated_living ==
    "modern" :> <<
          "https://images.pexels.com/photos/1571460/pexels-photo-1571460.jpeg",
          "https://images.pexels.com/photos/2062426/pexels-photo-2062426.jpeg",
          "https://images.pexels.com/photos/1080721/pexels-photo-1080721.jpeg">>
    @@
    "traditional" :> <<
          "https://images.pexels.com/photos/1648776/pexels-photo-1648776.jpeg",
          "https://images.pexels.com/photos/1743229/pexels-photo-1743229.jpeg",
          "https://images.pexels.com/photos/1395967/pexels-photo-1395967.jpeg">>
    @@
    "scandinavian" :> <<
          "https://images.pexels.com/photos/1571453/pexels-photo-1571453.jpeg",
          "https://images.pexels.com/photos/1454806/pexels-photo-1454806.jpeg",
          "https://images.pexels.com/photos/2062426/pexels-photo-2062426.jpeg">>
    @@
    "industrial" :> <<
          "https://images.pexels.com/photos/1080721/pexels-photo-1080721.jpeg",
          "https://images.pexels.com/photos/1329711/pexels-photo-1329711.jpeg",
          "https://images.pexels.com/photos/2089698/pexels-photo-2089698.jpeg">>
    @@
    "bohemian" :> <<
          "https://images.pexels.com/photos/1457842/pexels-photo-1457842.jpeg",
          "https://images.pexels.com/photos/1080696/pexels-photo-1080696.jpeg",
          "https://images.pexels.com/photos/1743229/pexels-photo-1743229.jpeg">>

curated_bedroom ==
    "modern" :> <<
          "https://images.pexels.com/photos/164595/pexels-photo-164595.jpeg",
          "https://images.pexels.com/photos/1454806/pexels-photo-1454806.jpeg",
          "https://images.pexels.com/photos/1080696/pexels-photo-1080696.jpeg">>
    @@
    "traditional" :> <<
          "https://images.pexels.com/photos/1743229/pexels-photo-1743229.jpeg",
          "https://images.pexels.com/photos/1648776/pexels-photo-1648776.jpeg",
          "https://images.pexels.com/photos/164595/pexels-photo-164595.jpeg">>
    @@
    "scandinavian" :> <<
          "https://images.pexels.com/photos/1454806/pexels-photo-1454806.jpeg",
          "https://images.pexels.com/photos/1080696/pexels-photo-1080696.jpeg",
          "https://images.pexels.com/photos/164595/pexels-photo-164595.jpeg">>
    @@
    "industrial" :> <<
          "https://images.pexels.com/photos/1329711/pexels-photo-1329711.jpeg",
          "https://images.pexels.com/photos/1080696/pexels-photo-1080696.jpeg",
          "https://images.pexels.com/photos/164595/pexels-photo-164595.jpeg">>
    @@
    "bohemian" :> <<
          "https://images.pexels.com/photos/1080696/pexels-photo-1080696.jpeg",
          "https://images.pexels.com/photos/1457842/pexels-photo-1457842.jpeg",
          "https://images.pexels.com/photos/1743229/pexels-photo-1743229.jpeg">>

curated_kitchen ==
    "modern" :> <<
          "https://images.pexels.com/photos/2724748/pexels-photo-2724748.jpeg",
          "https://images.pexels.com/photos/2062426/pexels-photo-2062426.jpeg",
          "https://images.pexels.com/photos/2089698/pexels-photo-2089698.jpeg">>
    @@
    "traditional" :> <<
          "https://images.pexels.com/photos/1599791/pexels-photo-1599791.jpeg",
          "https://images.pexels.com/photos/2724748/pexels-photo-2724748.jpeg",
          "https://images.pexels.com/photos/1648776/pexels-photo-1648776.jpeg">>
    @@
    "scandinavian" :> <<
          "https://images.pexels.com/photos/2062426/pexels-photo-2062426.jpeg",
          "https://images.pexels.com/photos/2724748/pexels-photo-2724748.jpeg",
          "https://images.pexels.com/photos/1599791/pexels-photo-1599791.jpeg">>
    @@
    "industrial" :> <<
          "https://images.pexels.com/photos/2089698/pexels-photo-2089698.jpeg",
          "https://images.pexels.com/photos/2724748/pexels-photo-2724748.jpeg",
          "https://images.pexels.com/photos/1599791/pexels-photo-1599791.jpeg">>
    @@
    "bohemian" :> <<
          "https://images.pexels.com/photos/1599791/pexels-photo-1599791.jpeg",
          "https://images.pexels.com/photos/2724748/pexels-photo-2724748.jpeg",
          "https://images.pexels.com/photos/1457842/pexels-photo-1457842.jpeg">>

curated_bathroom ==
    "modern" :> <<
          "https://images.pexels.com/photos/1358912/pexels-photo-1358912.jpeg",
          "https://images.pexels.com/photos/2062426/pexels-photo-2062426.jpeg",
          "https://images.pexels.com/photos/1080721/pexels-photo-1080721.jpeg">>
    @@
    "traditional" :> <<
          "https://images.pexels.com/photos/1454806/pexels-photo-1454806.jpeg",
          "https://images.pexels.com/photos/1358912/pexels-photo-1358912.jpeg",
          "https://images.pexels.com/photos/1648776/pexels-photo-1648776.jpeg">>
    @@
    "scandinavian" :> <<
          "https://images.pexels.com/photos/1080696/pexels-photo-1080696.jpeg",
          "https://images.pexels.com/photos/1358912/pexels-photo-1358912.jpeg",
          "https://images.pexels.com/photos/2062426/pexels-photo-2062426.jpeg">>
    @@
    "industrial" :> <<
          "https://images.pexels.com/photos/1329711/pexels-photo-1329711.jpeg",
          "https://images.pexels.com/photos/1358912/pexels-photo-1358912.jpeg",
          "https://images.pexels.com/photos/1080721/pexels-photo-1080721.jpeg">>
    @@
    "bohemian" :> <<
          "https://images.pexels.com/photos/1457842/pexels-photo-1457842.jpeg",
          "https://images.pexels.com/photos/1358912/pexels-photo-1358912.jpeg",
          "https://images.pexels.com/photos/1080696/pexels-photo-1080696.jpeg">>

curated_office ==
    "modern" :> <<
          "https://images.pexels.com/photos/667838/pexels-photo-667838.jpeg",
          "https://images.pexels.com/photos/1181406/pexels-photo-1181406.jpeg",
          "https://images.pexels.com/photos/1080721/pexels-photo-1080721.jpeg">>
    @@
    "traditional" :> <<
          "https://images.pexels.com/photos/1181406/pexels-photo-1181406.jpeg",
          "https://images.pexels.com/photos/667838/pexels-photo-667838.jpeg",
          "https://images.pexels.com/photos/1648776/pexels-photo-1648776.jpeg">>
    @@
    "scandinavian" :> <<
          "https://images.pexels.com/photos/1080696/pexels-photo-1080696.jpeg",
          "https://images.pexels.com/photos/667838/pexels-photo-667838.jpeg",
          "https://images.pexels.com/photos/1181406/pexels-photo-1181406.jpeg">>
    @@
    "industrial" :> <<
          "https://images.pexels.com/photos/1329711/pexels-photo-1329711.jpeg",
          "https://images.pexels.com/photos/667838/pexels-photo-667838.jpeg",
          "https://images.pexels.com/photos/1080721/pexels-photo-1080721.jpeg">>
    @@
    "bohemian" :> <<
          "https://images.pexels.com/photos/1457842/pexels-photo-1457842.jpeg",
          "https://images.pexels.com/photos/667838/pexels-photo-667838.jpeg",
          "https://images.pexels.com/photos/1181406/pexels-photo-1181406.jpeg">>

curated_dining ==
    "modern" :> <<
          "https://images.pexels.com/photos/1395967/pexels-photo-1395967.jpeg",
          "https://images.pexels.com/photos/2062426/pexels-photo-2062426.jpeg",
          "https://images.pexels.com/photos/1080721/pexels-photo-1080721.jpeg">>
    @@
    "traditional" :> <<
          "https://images.pexels.com/photos/1648776/pexels-photo-1648776.jpeg",
          "https://images.pexels.com/photos/1395967/pexels-photo-1395967.jpeg",
          "https://images.pexels.com/photos/1743229/pexels-photo-1743229.jpeg">>
    @@
    "scandinavian" :> <<
          "https://images.pexels.com/photos/1571453/pexels-photo-1571453.jpeg",
          "https://images.pexels.com/photos/1395967/pexels-photo-1395967.jpeg",
          "https://images.pexels.com/photos/2062426/pexels-photo-2062426.jpeg">>
    @@
    "industrial" :> <<
          "https://images.pexels.com/photos/1080721/pexels-photo-1080721.jpeg",
          "https://images.pexels.com/photos/1395967/pexels-photo-1395967.jpeg",
          "https://images.pexels.com/photos/1329711/pexels-photo-1329711.jpeg">>
    @@
    "bohemian" :> <<
          "https://images.pexels.com/photos/1457842/pexels-photo-1457842.jpeg",
          "https://images.pexels.com/photos/1395967/pexels-photo-1395967.jpeg",
          "https://images.pexels.com/photos/1743229/pexels-photo-1743229.jpeg">>

\* The table with the bohemian entry of the dining room left out.
curated_images_with_gap ==
    "living" :> curated_living @@
    "bedroom" :> curated_bedroom @@
    "kitchen" :> curated_kitchen @@
    "bathroom" :> curated_bathroom @@
    "office" :> curated_office @@
    "dining" :> [s \in DOMAIN curated_dining \ {"bohemian"} |-> curated_dining[s]]

curated_images ==
    "living" :> curated_living @@
    "bedroom" :> curated_bedroom @@
    "kitchen" :> curated_kitchen @@
    "bathroom" :> curated_bathroom @@
    "office" :> curated_office @@
    "dining" :> curated_dining

\* The keys of each room's dict in the order the literal lists them: the
\* order of list(curated_images[room_type].values()).
style_order == <<"modern", "traditional", "scandinavian", "industrial", "bohemian">>

\* The return value of the final else branch of _get_curated_image.
GLOBAL_DEFAULT_IMAGE == "https://images.pexels.com/photos/1571460/pexels-photo-1571460.jpeg"

\* images[index] of a Python list, index counted from 0.
ListAt(list, index) == list[index + 1]

\* ------------------------------------------------------------------------
\* Python values handed back by the functions
\* ------------------------------------------------------------------------

None == [t |-> "None", v |-> <<>>]

Str(s) == [t |-> "str", v |-> s]

\* raise Exception(message)
Raise(message) == [t |-> "raise", v |-> message]

\* bool(x) of an Optional[str]: None and "" are false.
Truthy(x) == x.t = "str" /\ x.v # <<>>

\* str(e) of the UnboundLocalError of line 469 (the wording of CPython 3.11
\* and later).
UNBOUND_TIME ==
    <<"UnboundLocalError: ",
      "cannot access local variable 'time' where it is not associated with a value">>

\* _get_curated_image with images[0] instead of images[index].
_get_curated_image_unrotated(room_type, style, now) ==
    IF room_type \in DOMAIN curated_images /\ style \in DOMAIN curated_images[room_type]
    THEN Str(<<ListAt(curated_images[room_type][style], 0)>>)
    ELSE IF room_type \in DOMAIN curated_images
    THEN Raise(UNBOUND_TIME)
    ELSE Str(<<GLOBAL_DEFAULT_IMAGE>>)

\* AIService._get_curated_image, with now the value of int(time.time()) that
\* the call reads.  `import time` (line 464) stands inside the if branch, so
\* time is a local name of the whole function, bound in that branch only: in
\* the elif branch line 468 selects the room's "modern" list and line 469,
\* int(time.time()), reads the unbound local and raises UnboundLocalError.
_get_curated_image(room_type, style, now) ==
    IF room_type \in DOMAIN curated_images /\ style \in DOMAIN curated_images[room_type]
    THEN LET images == curated_images[room_type][style]
             index  == now % Len(images)
         IN  Str(<<ListAt(images, index)>>)
    ELSE IF room_type \in DOMAIN curated_images
    THEN Raise(UNBOUND_TIME)
    ELSE Str(<<GLOBAL_DEFAULT_IMAGE>>)

\* ------------------------------------------------------------------------
\* Text generation: AIService._generate_with_gemini, _generate_with_openai,
\* generate_layout_with_gemini, generate_layout_with_openai
\* ------------------------------------------------------------------------

\* What the provider's API call does: it hands back text
\* ([kind |-> "text", text |-> chars]), it hands back a message without
\* content ([kind |-> "no_content"], OpenAI's message.content = None), or it
\* raises ([kind |-> "error", cause |-> str(e)]).
TextOf(outcome) ==
    IF outcome.kind = "text" THEN Str(outcome.text) ELSE None

\* _generate_with_gemini with the message returned instead of raised.
_generate_with_gemini_returns_message(outcome) ==
    IF outcome.kind = "error"
    THEN Str(<<"Gemini generation error: ", outcome.cause>>)
    ELSE TextOf(outcome)

_generate_with_gemini(outcome) ==
    IF outcome.kind = "error"
    THEN Raise(<<"Gemini generation error: ", outcome.cause>>)
    ELSE TextOf(outcome)

_generate_with_openai(outcome) ==
    IF outcome.kind = "error"
    THEN Raise(<<"OpenAI generation error: ", outcome.cause>>)
    ELSE TextOf(outcome)

\* src/utils/gemini_generator.py
generate_layout_with_gemini(outcome) ==
    IF outcome.kind = "error"
    THEN Str(<<"Gemini Error: ", outcome.cause>>)
    ELSE TextOf(outcome)

\* src/utils/openai_generator.py
generate_layout_with_openai(outcome) ==
    IF outcome.kind = "error"
    THEN Str(<<"OpenAI Error: ", outcome.cause>>)
    ELSE TextOf(outcome)

\* ------------------------------------------------------------------------
\* State
\* ------------------------------------------------------------------------

VARIABLES
    ai_service,         \* st.session_state.ai_service: an AIService or NoService
    clock,              \* the wall clock in seconds: int(time.time()), datetime.now()
    generated_layouts,  \* st.session_state.generated_layouts
    saved_layouts,      \* st.session_state.saved_layouts
    pc,                 \* where the running request waits: "idle" or the call in flight
    preferences,        \* the preferences dict of the running or last request
    descriptions,       \* what generate_layout_descriptions returned
    i,                  \* index of the description generate_layout_ideas is at
    hf_model,           \* position of the for loop over models, 0 outside it
    image_url,          \* what generate_layout_image returned
    trace,              \* the cascade states generate_layout_image went through
    calls,              \* the outbound network calls of the request, in order
    answered,           \* how many of them have ended: a response or an exception
    errors,             \* the messages given to st.error during the request
    results,            \* what generate_layout_ideas returned
    fn_call,            \* a single function applied on its own: name and arguments
    fn_ret,             \* its return value
    fn_done,            \* whether it has returned
    running,            \* of two requests on one service, the one the request variables
                        \* above belong to: 1 or 2, and 0 while there is one request only
    suspended,          \* the request variables of the other one, which waits its turn
    script,             \* the service the two were given, and per request the preferences
                        \* and what the services it calls answer
    interleaved         \* whether one of the two, waiting for a call of its own, has
                        \* given way to the other while that one waited for a call too

vars == <<ai_service, clock, generated_layouts, saved_layouts, pc, preferences, descriptions, i,
          hf_model, image_url, trace, calls, answered, errors, results,
          fn_call, fn_ret, fn_done, running, suspended, script, interleaved>>

app_vars == <<ai_service, clock, generated_layouts, saved_layouts, pc, preferences, descriptions, i,
              hf_model, image_url, trace, calls, answered, errors, results>>

fn_vars == <<fn_call, fn_ret, fn_done>>

pair_vars == <<running, suspended, script, interleaved>>

\* ------------------------------------------------------------------------
\* The functions applied on their own to bounded inputs
\* ------------------------------------------------------------------------

\* The pieces the provider texts are built of.
Tokens == {LAYOUT, <<":">>, <<" ">>, <<"x">>}

RECURSIVE TextsUpTo(_)
TextsUpTo(n) ==
    IF n = 0 THEN {<<>>}
    ELSE LET shorter == TextsUpTo(n - 1)
         IN  shorter \cup {s \o t : s \in shorter, t \in Tokens}

\* "LAYOUT 1:\nFoo\nLAYOUT 2:\nBar"
ExampleText ==
    LAYOUT \o <<" ", "1", ":", "\n", "F", "o", "o", "\n">> \o
    LAYOUT \o <<" ", "2", ":", "\n", "B", "a", "r">>

\* "no markers here"
NoMarkerText ==
    <<"n", "o", " ", "m", "a", "r", "k", "e", "r", "s", " ", "h", "e", "r", "e">>

\* "LAYLAYOUT:x": the beginning of a marker before a marker.
PartialMarkerText == <<"L", "A", "Y">> \o LAYOUT \o <<":", "x">>

\* "\tLAYOUT 1\r\n: x\n": the other whitespace characters.
OtherWhitespaceText == <<"\t">> \o LAYOUT \o <<" ", "1", "\r", "\n", ":", " ", "x", "\n">>

\* "LAYOUT 1:", form feed, " Foo ", no-break space, "LAYOUT:", vertical tab,
\* em space, "x", U+001F: whitespace outside the ASCII blanks at the edges of
\* segments.
RareWhitespaceText ==
    LAYOUT \o <<" ", "1", ":", "\f", " ", "F", "o", "o", " ", "\\u00a0">>
    \o LAYOUT \o <<":", "", "\\u2003", "x", "">>

\* "LAYOUT: ", e with acute accent, no-break space: a letter outside ASCII
\* stays, the space after it goes.
AccentedText == LAYOUT \o <<":", " ", "\\u00e9", "\\u00a0">>

ParseInputs ==
    TextsUpTo(MaxTokens)
    \cup {ExampleText, NoMarkerText, PartialMarkerText, OtherWhitespaceText,
          RareWhitespaceText, AccentedText}

\* Strings given to the normalisation: every key of the lookups, and strings
\* that are no key (another label, a canonical name, another case, empty).
RoomInputs ==
    DOMAIN room_mapping \cup {"Guest Room", "living", "bedroom", "LIVING ROOM", "Garage", ""}

StyleInputs ==
    DOMAIN style_mapping \cup {"Coastal", "modern", "bohemian", "MODERN", ""}

\* Strings given to the curated lookup: every key of the table, and strings
\* that are no key.
CuratedRoomInputs == DOMAIN curated_images \cup {"Living Room", "garage", ""}

CuratedStyleInputs ==
    {style_order[k] : k \in 1..Len(style_order)} \cup {"Modern", "rustic", ""}

\* Highest clock reading given to the curated lookup.
MaxNow == 4

\* Causes of a failed provider call: str(e).
Causes == {"429 quota exceeded", "timed out", "401 invalid api key"}

TextOutcomes ==
    {[kind |-> "text", text |-> r] : r \in TextsUpTo(1) \cup {ExampleText, NoMarkerText}}
    \cup {[kind |-> "error", cause |-> c] : c \in Causes}

TextFunctions ==
    {"_generate_with_gemini", "_generate_with_openai",
     "generate_layout_with_gemini", "generate_layout_with_openai"}

FunctionCalls ==
    {[fn |-> "_parse_layout_response", response |-> r] : r \in ParseInputs}
    \cup {[fn |-> "_map_room_type", room_type |-> s] : s \in RoomInputs}
    \cup {[fn |-> "_map_style", style |-> s] : s \in StyleInputs}
    \cup {[fn |-> "_get_curated_image", room_type |-> r, style |-> s, now |-> n] :
             r \in CuratedRoomInputs, s \in CuratedStyleInputs, n \in 0..MaxNow}
    \cup {[fn |-> f, outcome |-> o] : f \in TextFunctions, o \in TextOutcomes}
    \cup {[fn |-> "_generate_with_openai", outcome |-> [kind |-> "no_content"]]}

\* ------------------------------------------------------------------------
\* Inputs of the application
\* ------------------------------------------------------------------------

\* Most result records the session list holds before Generate is refused.
MaxHistory == 1

\* Highest reading of the clock.
MaxClock == 1

\* The options of the provider selectbox of main.
Providers == {"gemini", "openai"}

\* Preferences dicts the form hands to main, every value an option of its
\* widget: a pair with the default colours, a pair with no colour and a text
\* in the notes, and a pair whose style the lookup maps to another name.
PreferenceSets ==
    {[room_type |-> "Bedroom", style |-> "Modern", budget |-> "Under $1,000",
      space_size |-> "Small (< 100 sq ft)", colors |-> <<"White", "Gray">>,
      features |-> <<"Reading Nook">>, description |-> ""],
     [room_type |-> "Master Bedroom", style |-> "Minimalist", budget |-> "$30,000+",
      space_size |-> "Large (200-400 sq ft)", colors |-> <<>>,
      features |-> <<>>, description |-> "No carpets"],
     [room_type |-> "Kitchen", style |-> "Rustic", budget |-> "$1,000 - $5,000",
      space_size |-> "Medium (100-200 sq ft)", colors |-> <<"Blue">>,
      features |-> <<>>, description |-> ""]}

\* A preferences dict given to the functions of AIService as an argument by
\* a caller other than the form: its labels are no option of the form and no
\* key of the lookups.
DirectPreferences ==
    {[room_type |-> "Guest Room", style |-> "Coastal", budget |-> "$1,000 - $5,000",
      space_size |-> "Medium (100-200 sq ft)", colors |-> <<"Blue">>,
      features |-> <<>>, description |-> ""]}

\* The preferences before the first request.
NoPreferences == None

\* st.session_state.ai_service = None
NoService == None

\* Values of the attribute hf_api_key: None, "" and a token.
HfKeys == {None, Str(<<>>), Str(<<"hf_token">>)}

\* What the text provider does with the request of the pipeline.
BlankText == <<" ", "\n">>

PipelineTextOutcomes(service) ==
    IF service = NoService THEN {}
    ELSE {[kind |-> "text", text |-> r] : r \in {ExampleText, NoMarkerText, BlankText}}
         \cup {[kind |-> "error", cause |-> c] : c \in Causes}
         \cup (IF service.provider = "openai" THEN {[kind |-> "no_content"]} ELSE {})

\* What requests.get does in _generate_with_pollinations: a response with a
\* status code, or an exception (requests.Timeout after 30 s among them).
PollinationsOutcomes ==
    {[kind |-> "response", status_code |-> c] : c \in {200, 404, 500}}
    \cup {[kind |-> "exception", cause |-> c] : c \in {"Read timed out", "Connection refused"}}

\* The content-type headers of the responses, as the characters of the str
\* response.headers.get('content-type', ''): "image/png",
\* "image/webp; charset=binary", "application/json" and "text/html".
IMAGE_PNG == <<"i", "m", "a", "g", "e", "/", "p", "n", "g">>

IMAGE_WEBP ==
    <<"i", "m", "a", "g", "e", "/", "w", "e", "b", "p", ";", " ", "c", "h", "a", "r", "s", "e", "t", "=", "b", "i", "n", "a", "r", "y">>

APPLICATION_JSON ==
    <<"a", "p", "p", "l", "i", "c", "a", "t", "i", "o", "n", "/", "j", "s", "o", "n">>

TEXT_HTML == <<"t", "e", "x", "t", "/", "h", "t", "m", "l">>

\* What requests.post does for one model in _generate_with_huggingface.  A
\* response has its status code, its content-type header, its body (a name
\* for the bytes and their number) and whether response.json() parses it.
HfOutcomes ==
    {[kind |-> "response", status_code |-> 200, content_type |-> IMAGE_PNG,
      content |-> [bytes |-> "PNG_A", len |-> 2048], is_json |-> FALSE],
     [kind |-> "response", status_code |-> 200, content_type |-> IMAGE_PNG,
      content |-> [bytes |-> "PNG_S", len |-> 1000], is_json |-> FALSE],
     [kind |-> "response", status_code |-> 200, content_type |-> IMAGE_WEBP,
      content |-> [bytes |-> "PNG_A", len |-> 2048], is_json |-> FALSE],
     [kind |-> "response", status_code |-> 200, content_type |-> APPLICATION_JSON,
      content |-> [bytes |-> "JSON_E", len |-> 2048], is_json |-> TRUE],
     [kind |-> "response", status_code |-> 200, content_type |-> TEXT_HTML,
      content |-> [bytes |-> "HTML_E", len |-> 2048], is_json |-> FALSE]}
    \cup {[kind |-> "response", status_code |-> c, content_type |-> APPLICATION_JSON,
           content |-> [bytes |-> "JSON_E", len |-> 60], is_json |-> TRUE] :
             c \in {503, 404, 429, 500}}
    \cup {[kind |-> "exception", cause |-> "Read timed out"]}

\* ------------------------------------------------------------------------
\* Prompt for the image services: AIService._create_detailed_image_prompt
\* ------------------------------------------------------------------------

\* The text of a str that is interpolated: nothing for "".
Chunk(s) == IF s = "" THEN <<>> ELSE <<s>>

\* sep.join(list)
RECURSIVE Join(_, _)
Join(list, sep) ==
    IF list = <<>> THEN <<>>
    ELSE IF Len(list) = 1 THEN Chunk(list[1])
    ELSE Chunk(list[1]) \o <<sep>> \o Join(Tail(list), sep)

\* str.lower() on the labels of PreferenceSets and DirectPreferences.
lower_table ==
    "Bedroom" :> "bedroom" @@
    "Master Bedroom" :> "master bedroom" @@
    "Kitchen" :> "kitchen" @@
    "Guest Room" :> "guest room" @@
    "Modern" :> "modern" @@
    "Minimalist" :> "minimalist" @@
    "Rustic" :> "rustic" @@
    "Coastal" :> "coastal"

Lower(s) == lower_table[s]

\* _create_detailed_image_prompt with the description put in front of the
\* prompt.
_create_detailed_image_prompt_with_description(description, prefs) ==
    LET room_type == prefs.room_type
        style     == prefs.style
        colors    == Join(DictGet(prefs, "colors", <<"white", "gray">>), ", ")
    IN  description
        \o <<", ", "A beautiful ", Lower(style), " ", Lower(room_type), " interior design with ">>
        \o colors
        \o <<" color scheme, professional interior photography, high quality, well-lit, photorealistic">>

_create_detailed_image_prompt(description, prefs) ==
    LET room_type == prefs.room_type
        style     == prefs.style
        colors    == Join(DictGet(prefs, "colors", <<"white", "gray">>), ", ")
    IN  <<"A beautiful ", Lower(style), " ", Lower(room_type), " interior design with ">>
        \o colors
        \o <<" color scheme, professional interior photography, high quality, well-lit, photorealistic">>

\* ------------------------------------------------------------------------
\* Prompt for the text provider: AIService._create_layout_prompt
\* ------------------------------------------------------------------------

\* The line break of the f-string of _create_layout_prompt: a newline and
\* the indentation of the source.
NL == "\n        "

\* The f-string of _create_layout_prompt with its seven replacement fields
\* filled in: the literal pieces, line by line, and the texts put between
\* them.
LayoutPromptTemplate(room_type, style, budget, space_size, colors, features, notes) ==
    <<NL, "Create 1 detailed home layout idea for a ">> \o room_type
    \o <<" with the following specifications:", NL, NL, "Style: ">> \o style
    \o <<NL, "Budget Range: ">> \o budget
    \o <<NL, "Space Size: ">> \o space_size
    \o <<NL, "Color Preferences: ">> \o colors
    \o <<NL, "Special Features: ">> \o features
    \o <<NL, "Additional Notes: ">> \o notes
    \o <<NL, NL, "For the layout, provide:",
         NL, "1. A descriptive title",
         NL, "2. Detailed layout description (150-200 words)",
         NL, "3. Key features and furniture placement",
         NL, "4. Color scheme and materials",
         NL, "5. Lighting suggestions",
         NL, "6. Budget-conscious tips",
         NL, NL, "Format the layout as:",
         NL, "LAYOUT 1:",
         NL, "[Detailed description]",
         NL, NL, "Make the layout unique and practical while staying within the specified parameters.",
         NL>>

\* The keys _create_layout_prompt reads with preferences[key], in the order
\* it reads them.
RequiredKeys == <<"room_type", "style", "budget", "space_size">>

\* The first key of keys that dict does not hold, or "" when it holds all.
RECURSIVE FirstMissing(_, _)
FirstMissing(dict, keys) ==
    IF keys = <<>> THEN ""
    ELSE IF keys[1] \notin DOMAIN dict THEN keys[1]
    ELSE FirstMissing(dict, Tail(keys))

\* _create_layout_prompt putting the lists in as they are, without the join.
_create_layout_prompt_unjoined(prefs) ==
    LET missing == FirstMissing(prefs, RequiredKeys)
        Repr(list) == <<"[">> \o Join(list, ", ") \o <<"]">>
    IN  IF missing # "" THEN Raise(<<"KeyError: ", missing>>)
        ELSE Str(LayoutPromptTemplate(
                     Chunk(prefs.room_type), Chunk(prefs.style), Chunk(prefs.budget),
                     Chunk(prefs.space_size),
                     Repr(DictGet(prefs, "colors", <<>>)),
                     Repr(DictGet(prefs, "features", <<>>)),
                     Chunk(DictGet(prefs, "description", ""))))

\* AIService._create_layout_prompt: the prompt, or the KeyError of the
\* first preferences[key] whose key is not there.
_create_layout_prompt(prefs) ==
    LET missing == FirstMissing(prefs, RequiredKeys)
    IN  IF missing # "" THEN Raise(<<"KeyError: ", missing>>)
        ELSE Str(LayoutPromptTemplate(
                     Chunk(prefs.room_type), Chunk(prefs.style), Chunk(prefs.budget),
                     Chunk(prefs.space_size),
                     Join(DictGet(prefs, "colors", <<>>), ", "),
                     Join(DictGet(prefs, "features", <<>>), ", "),
                     Chunk(DictGet(prefs, "description", ""))))

\* urllib.parse.quote on the pieces a prompt is made of: letters stay, a
\* space becomes %20 and a comma %2C.
quote_table ==
    "A beautiful " :> "A%20beautiful%20" @@
    " " :> "%20" @@
    ", " :> "%2C%20" @@
    " interior design with " :> "%20interior%20design%20with%20" @@
    " color scheme, professional interior photography, high quality, well-lit, photorealistic"
        :> "%20color%20scheme%2C%20professional%20interior%20photography%2C%20high%20quality%2C%20well-lit%2C%20photorealistic" @@
    "bedroom" :> "bedroom" @@
    "master bedroom" :> "master%20bedroom" @@
    "kitchen" :> "kitchen" @@
    "guest room" :> "guest%20room" @@
    "modern" :> "modern" @@
    "minimalist" :> "minimalist" @@
    "rustic" :> "rustic" @@
    "coastal" :> "coastal" @@
    "White" :> "White" @@
    "Gray" :> "Gray" @@
    "Blue" :> "Blue" @@
    "F" :> "F" @@
    "o" :> "o" @@
    "B" :> "B" @@
    "a" :> "a" @@
    "r" :> "r"

Quote(text) == [k \in DOMAIN text |-> quote_table[text[k]]]

\* The image_url that _generate_with_pollinations requests.
PollinationsUrl(description, prefs) ==
    <<"https://image.pollinations.ai/prompt/">>
    \o Quote(_create_detailed_image_prompt(description, prefs))
    \o <<"?width=512&height=512&model=flux&enhance=true&nologo=true">>

\* ------------------------------------------------------------------------
\* The remote image strategies
\* ------------------------------------------------------------------------

\* _create_detailed_image_prompt raises the KeyError of preferences['room_type']
\* or preferences['style'].
ImagePromptRaises(prefs) == FirstMissing(prefs, <<"room_type", "style">>) # ""

\* _generate_with_pollinations with the test of the status code inverted.
_generate_with_pollinations_inverted(description, prefs, outcome) ==
    IF ImagePromptRaises(prefs) THEN None
    ELSE IF outcome.kind = "response" /\ outcome.status_code # 200
    THEN Str(PollinationsUrl(description, prefs))
    ELSE None

\* _generate_with_pollinations taking every response for a success.
_generate_with_pollinations_any_status(description, prefs, outcome) ==
    IF ImagePromptRaises(prefs) THEN None
    ELSE IF outcome.kind = "response"
    THEN Str(PollinationsUrl(description, prefs))
    ELSE None

\* AIService._generate_with_pollinations, given what requests.get did.  An
\* exception raised while the prompt is built is caught like one of the
\* request, and no request is made then.
_generate_with_pollinations(description, prefs, outcome) ==
    IF ImagePromptRaises(prefs) THEN None
    ELSE IF outcome.kind = "response" /\ outcome.status_code = 200
    THEN Str(PollinationsUrl(description, prefs))
    ELSE None

\* ------------------------------------------------------------------------
\* The functions applied on their own to preferences
\* ------------------------------------------------------------------------

\* Preferences given to _create_layout_prompt: those of the form, those of
\* another caller, the living room with the default colours, a dict without
\* colours, features and notes, and a dict without budget and space size.
LayoutPromptInputs ==
    PreferenceSets \cup DirectPreferences
    \cup {[room_type |-> "Living Room", style |-> "Modern", budget |-> "$5,000 - $15,000",
           space_size |-> "Medium (100-200 sq ft)", colors |-> <<"White", "Gray">>,
           features |-> <<"Fireplace", "Built-in Storage">>,
           description |-> "Pet friendly"],
          [room_type |-> "Kitchen", style |-> "Industrial", budget |-> "$15,000 - $30,000",
           space_size |-> "Extra Large (400+ sq ft)"],
          [room_type |-> "Kitchen", style |-> "Industrial"]}

\* Preferences given to _generate_with_pollinations: those of the form,
\* those of another caller, and dicts without a style or without a room type.
ImagePromptInputs ==
    PreferenceSets \cup DirectPreferences
    \cup {[room_type |-> "Bedroom", colors |-> <<"White">>],
          [style |-> "Modern", colors |-> <<"White">>]}

\* What requests.get is made to do when _generate_with_pollinations is
\* applied on its own.
PollinationsFunctionOutcomes ==
    PollinationsOutcomes
    \cup {[kind |-> "response", status_code |-> c] : c \in {201, 204, 301, 429, 503}}

PreferenceFunctionCalls ==
    {[fn |-> "_create_layout_prompt", preferences |-> p] : p \in LayoutPromptInputs}
    \cup {[fn |-> "_generate_with_pollinations", description |-> d, preferences |-> p,
           outcome |-> o] :
             d \in {<<"F", "o", "o">>}, p \in ImagePromptInputs,
             o \in PollinationsFunctionOutcomes}

\* The list `models` of _generate_with_huggingface.
models ==
    <<"stabilityai/stable-diffusion-xl-base-1.0",
      "CompVis/stable-diffusion-v1-4",
      "runwayml/stable-diffusion-v1-5">>

\* 'image' in content_type: the str occurs somewhere in the header.
ContainsImage(content_type) == Find(content_type, <<"i", "m", "a", "g", "e">>, 1) # 0

\* Least number of bytes a body must exceed to count as an image.
MIN_IMAGE_BYTES == 1000

\* base64.b64encode(image_data).decode() of the named bodies.
b64encode ==
    "PNG_A" :> "base64(PNG_A)" @@
    "PNG_S" :> "base64(PNG_S)"

\* HfModelResult without the test of the length of the body.
HfModelResultAnyLength(outcome) ==
    IF /\ outcome.kind = "response"
       /\ outcome.status_code = 200
       /\ ContainsImage(outcome.content_type)
    THEN Str(<<"data:image/png;base64,", b64encode[outcome.content.bytes]>>)
    ELSE None

\* The test of one model's response in the loop of _generate_with_huggingface:
\* the data reference it returns, or None when the loop continues.
HfModelResult(outcome) ==
    IF /\ outcome.kind = "response"
       /\ outcome.status_code = 200
       /\ ContainsImage(outcome.content_type)
       /\ outcome.content.len > MIN_IMAGE_BYTES
    THEN Str(<<"data:image/png;base64,", b64encode[outcome.content.bytes]>>)
    ELSE None

\* The guard with the empty credential taken for a credential.
HfKeyMissingNoneOnly(service) ==
    "hf_api_key" \notin DOMAIN service \/ service.hf_api_key = None

\* The guard of _generate_with_huggingface:
\* not hasattr(self, 'hf_api_key') or not self.hf_api_key.
HfKeyMissing(service) ==
    "hf_api_key" \notin DOMAIN service \/ ~Truthy(service.hf_api_key)

\* ------------------------------------------------------------------------
\* The cascade of AIService.generate_layout_image
\* ------------------------------------------------------------------------

\* States of the cascade: strategy 0 is Pollinations, strategy 1 Hugging Face.
TryingStrategy(k) == <<"TryingStrategy", k>>

Succeeded == <<"Succeeded">>

ExhaustedFallback == <<"ExhaustedFallback">>

\* generate_layout_image ending without the curated fallback.
CuratedFallbackMissing(prefs, now) == None

\* Lines 64-67 of generate_layout_image: the curated fallback, read at now.
CuratedFallback(prefs, now) ==
    LET room_type == _map_room_type(prefs.room_type)
        style     == _map_style(prefs.style)
    IN  _get_curated_image(room_type, style, now)

\* ------------------------------------------------------------------------
\* _generate_with_huggingface and generate_layout_image as functions of what
\* the services do: the value returned and the requests sent, in order
\* ------------------------------------------------------------------------

\* The for loop over models from model number k on, outcomes[k] being what
\* requests.post does for model number k.
RECURSIVE HfLoop(_, _)
HfLoop(outcomes, k) ==
    IF k > Len(models) THEN [ret |-> None, sent |-> SubSeq(models, 1, Len(models))]
    ELSE LET data == HfModelResult(outcomes[k])
         IN  IF Truthy(data) THEN [ret |-> data, sent |-> SubSeq(models, 1, k)]
             ELSE HfLoop(outcomes, k + 1)

\* AIService._generate_with_huggingface.  Without a credential, and when the
\* prompt cannot be built, it returns None before the loop.
_generate_with_huggingface(service, description, prefs, outcomes) ==
    IF HfKeyMissing(service) \/ ImagePromptRaises(prefs)
    THEN [ret |-> None, sent |-> <<>>]
    ELSE HfLoop(outcomes, 1)

\* str(e) of a raised exception: the text after the name of the exception,
\* which for a KeyError is the repr of the key.
StrOfException(exception) ==
    IF Head(exception.v) = "KeyError: "
    THEN <<"'">> \o Tail(exception.v) \o <<"'">>
    ELSE Tail(exception.v)

\* The except clause of generate_layout_image (lines 69-73) for an exception
\* of the curated fallback of lines 65-67: the message given to st.error, and
\* the same lookup once more, which raises the same exception out of the
\* function.
ExceptClause(exception, sent) ==
    [ret    |-> exception,
     sent   |-> sent,
     errors |-> <<<<"Error generating image: ">> \o StrOfException(exception)>>]

\* AIService.generate_layout_image: Pollinations, then Hugging Face, then
\* the curated table read at now; the value returned or raised, the requests
\* sent and the messages given to st.error.  For preferences without a room
\* type or a style no prompt is built and no request sent, and
\* preferences['room_type'] or preferences['style'] of the curated fallback
\* raises KeyError.
generate_layout_image(service, description, prefs, pollinations, huggingface, now) ==
    LET first  == _generate_with_pollinations(description, prefs, pollinations)
        second == _generate_with_huggingface(service, description, prefs, huggingface)
        missing == FirstMissing(prefs, <<"room_type", "style">>)
    IN  IF ImagePromptRaises(prefs)
        THEN ExceptClause(Raise(<<"KeyError: ", missing>>), <<>>)
        ELSE IF Truthy(first)
        THEN [ret |-> first, sent |-> <<"pollinations">>, errors |-> <<>>]
        ELSE IF Truthy(second.ret)
        THEN [ret |-> second.ret, sent |-> <<"pollinations">> \o second.sent,
              errors |-> <<>>]
        ELSE LET image == CuratedFallback(prefs, now)
             IN  IF image.t = "raise"
                 THEN ExceptClause(image, <<"pollinations">> \o second.sent)
                 ELSE [ret |-> image, sent |-> <<"pollinations">> \o second.sent,
                       errors |-> <<>>]

\* The objects the image functions are applied to: an AIService with each
\* of HfKeys, and one whose attribute hf_api_key has been deleted.
ServiceInputs ==
    {[provider |-> "gemini", api_key |-> "api-key", hf_api_key |-> k,
      current_provider |-> "gemini",
      client |-> [class |-> "GenerativeModel", argument |-> "gemini-1.5-flash"]] :
         k \in HfKeys}
    \cup {[provider |-> "gemini", api_key |-> "api-key", current_provider |-> "gemini",
            client |-> [class |-> "GenerativeModel", argument |-> "gemini-1.5-flash"]]}

\* What requests.post does for the three models, one after the other.
HfOutcomeLists == {<<a, b, c>> : a \in HfOutcomes, b \in HfOutcomes, c \in HfOutcomes}

\* The descriptions generate_layout_image is given: "Foo" and "Bar".
DescriptionInputs == {<<"F", "o", "o">>, <<"B", "a", "r">>}

ImageFunctionCalls ==
    {[fn |-> "_generate_with_huggingface", service |-> s, description |-> <<"F", "o", "o">>,
      preferences |-> p, outcomes |-> o] :
         s \in ServiceInputs, p \in PreferenceSets, o \in HfOutcomeLists}
    \cup {[fn |-> "generate_layout_image", service |-> s, description |-> d,
           preferences |-> p, pollinations |-> g, huggingface |-> <<o, o, o>>, now |-> n] :
             s \in ServiceInputs, d \in DescriptionInputs, p \in ImagePromptInputs,
             g \in PollinationsOutcomes, o \in HfOutcomes, n \in 0..2}

\* The branch _get_curated_image takes: the if of the exact entry, the elif
\* of the room's "modern" or first entry, or the else of the default URL.
CuratedBranch(room_type, style) ==
    IF room_type \in DOMAIN curated_images /\ style \in DOMAIN curated_images[room_type]
    THEN "exact"
    ELSE IF room_type \in DOMAIN curated_images THEN "fallback"
    ELSE "default"

\* Lines 64-67 of generate_layout_image applied to the strings of a
\* preferences dict: the URL returned and the branch of the lookup taken.
curated_fallback(room_type, style, now) ==
    [ret    |-> CuratedFallback([room_type |-> room_type, style |-> style], now),
     branch |-> CuratedBranch(_map_room_type(room_type), _map_style(style))]

CuratedFallbackCalls ==
    {[fn |-> "curated_fallback", room_type |-> r, style |-> s, now |-> n] :
        r \in RoomInputs, s \in StyleInputs, n \in 0..1}

\* ------------------------------------------------------------------------
\* AIService.__init__ and generate_layout_descriptions
\* ------------------------------------------------------------------------

\* AIService._setup_client: the client object it sets, by its class and the
\* argument it was constructed with, genai.GenerativeModel('gemini-1.5-flash')
\* or openai.OpenAI(api_key=...); for any other provider the ValueError of
\* the else branch, which the except clause raises again.
_setup_client(provider, api_key) ==
    IF provider = "gemini"
    THEN [class |-> "GenerativeModel", argument |-> "gemini-1.5-flash"]
    ELSE IF provider = "openai"
    THEN [class |-> "OpenAI", argument |-> api_key]
    ELSE Raise(<<"ValueError: ", "Unsupported provider: ", provider>>)

\* The messages the except clause of _setup_client gives to st.error before
\* it raises again: none when the client was set.
SetupClientErrors(provider, api_key) ==
    LET client == _setup_client(provider, api_key)
    IN  IF "t" \in DOMAIN client
        THEN <<<<"Failed to initialize ", provider, ": ">> \o StrOfException(client)>>
        ELSE <<>>

\* __init__ taking a credential for Hugging Face into the service.
AIServiceWithHfKey(provider, api_key) ==
    LET client == _setup_client(provider, api_key)
    IN  IF "t" \in DOMAIN client THEN client
        ELSE [provider |-> provider, api_key |-> api_key,
              hf_api_key |-> Str(<<"hf_token">>),
              current_provider |-> provider, client |-> client]

\* AIService.__init__: the five attributes of the object, or the exception
\* _setup_client raises out of the constructor, which leaves no object.
AIService(provider, api_key) ==
    LET client == _setup_client(provider, api_key)
    IN  IF "t" \in DOMAIN client THEN client
        ELSE [provider |-> provider, api_key |-> api_key, hf_api_key |-> None,
              current_provider |-> provider, client |-> client]

\* What the sidebar of main holds in a script run: the provider of the
\* selectbox and the text of the key field, "" while it is empty.
Sidebars == {[provider |-> p, api_key |-> k] : p \in Providers, k \in {"", "api-key"}}

\* Lines 139-140 of main, run at the top of every script run: with a key in
\* the key field the session gets a new AIService, without one it keeps the
\* service it has.
RunSidebar(service, sidebar) ==
    IF sidebar.api_key # "" THEN AIService(sidebar.provider, sidebar.api_key)
    ELSE service

\* Providers the constructor is given: the options of the selectbox, and
\* strings that are none of them (another name, another case, empty).
ProviderInputs == Providers \cup {"claude", "Gemini", "OPENAI", ""}

ConstructorCalls ==
    {[fn |-> "AIService", provider |-> p, api_key |-> "api-key"] : p \in ProviderInputs}

\* The text call of generate_layout_descriptions, by self.provider.
GenerateText(service, outcome) ==
    IF service.provider = "gemini" THEN _generate_with_gemini(outcome)
    ELSE _generate_with_openai(outcome)

\* The slice left out: every parsed description is returned.
FirstOnlyKeepsAll(layouts) == layouts

\* layouts[:1]
FirstOnly(layouts) == IF layouts = <<>> THEN <<>> ELSE <<layouts[1]>>

\* generate_layout_descriptions once the provider has answered: the list it
\* returns and the message it gives to st.error, if any.  A response that is
\* None makes _parse_layout_response raise AttributeError.
generate_layout_descriptions(service, outcome) ==
    LET response == GenerateText(service, outcome)
    IN  IF response.t = "raise"
        THEN [layouts |-> <<>>,
              errors  |-> <<<<"Error generating layouts: ">> \o response.v>>]
        ELSE IF response.t = "None"
        THEN [layouts |-> <<>>,
              errors  |-> <<<<"Error generating layouts: ",
                             "'NoneType' object has no attribute 'split'">>>>]
        ELSE [layouts |-> FirstOnly(_parse_layout_response(response.v)),
              errors  |-> <<>>]

\* ------------------------------------------------------------------------
\* generate_layout_ideas and main: one request, from network call to
\* network call
\* ------------------------------------------------------------------------

\* ResultRecord keeping only the beginning of the description: description[:2].
ResultRecordCutsDescription(idx, description, image, prefs, service, id_now, generated_now) ==
    [id          |-> <<"layout_", id_now, "_", idx>>,
     title       |-> <<prefs.style, " ", prefs.room_type, " Layout #", idx + 1>>,
     description |-> SubSeq(description, 1, 2),
     image_url   |-> image,
     preferences |-> prefs,
     generated_at |-> generated_now,
     ai_provider |-> service.current_provider]

\* The result dict generate_layout_ideas builds for description number idx.
\* The id holds the second of the datetime.now() of line 96, id_now, and the
\* index; generated_at is the datetime.now() of line 101, generated_now, kept
\* to the second.
ResultRecord(idx, description, image, prefs, service, id_now, generated_now) ==
    [id          |-> <<"layout_", id_now, "_", idx>>,
     title       |-> <<prefs.style, " ", prefs.room_type, " Layout #", idx + 1>>,
     description |-> description,
     image_url   |-> image,
     preferences |-> prefs,
     generated_at |-> generated_now,
     ai_provider |-> service.current_provider]

\* The readings a clock can give that has given the reading now: the clock
\* does not go back, and is followed up to MaxClock.
Readings(now) == now..MaxClock

\* BeginImage sending the first Hugging Face request along with the
\* Pollinations request.
BeginImageWithHuggingFace(idx, res) ==
    /\ pc' = "pollinations"
    /\ i' = idx
    /\ results' = res
    /\ trace' = <<TryingStrategy(0)>>
    /\ calls' = calls \o <<"pollinations", models[1]>>
    /\ image_url' = None
    /\ hf_model' = 0
    /\ UNCHANGED generated_layouts

\* generate_layout_image is entered for description number idx: it sends the
\* Pollinations request and waits for it.
BeginImage(idx, res) ==
    /\ pc' = "pollinations"
    /\ i' = idx
    /\ results' = res
    /\ trace' = <<TryingStrategy(0)>>
    /\ calls' = Append(calls, "pollinations")
    /\ image_url' = None
    /\ hf_model' = 0
    /\ UNCHANGED generated_layouts

\* ReturnToMain assigning the results to the session list instead of
\* extending it.
ReturnToMainReplaces(res, errs) ==
    /\ pc' = "idle"
    /\ results' = res
    /\ generated_layouts' = res
    /\ errors' = IF res # <<>> THEN errs
                 ELSE Append(errs, <<"Failed to generate layouts. Please try again.">>)

\* generate_layout_ideas hands res back to main, which extends the session
\* list when res is not empty and reports a failure when it is.
ReturnToMain(res, errs) ==
    /\ pc' = "idle"
    /\ results' = res
    /\ generated_layouts' = IF res # <<>> THEN generated_layouts \o res
                            ELSE generated_layouts
    /\ errors' = IF res # <<>> THEN errs
                 ELSE Append(errs, <<"Failed to generate layouts. Please try again.">>)

\* generate_layout_image raised exception out of its except clause, at the
\* clock reading now: the except clause of generate_layout_ideas (lines
\* 108-110) reports it and returns the empty list.
ImageRaised(exception, tr, cl, now) ==
    /\ ReturnToMain(<<>>, errors \o <<<<"Error generating image: ">> \o StrOfException(exception),
                                      <<"Error generating layouts: ">> \o StrOfException(exception)>>)
    /\ image_url' = exception
    /\ trace' = tr
    /\ calls' = cl
    /\ hf_model' = 0
    /\ clock' = now
    /\ UNCHANGED i

\* generate_layout_image returned image for description number i, having
\* gone through the cascade states tr and last read the clock at now: the
\* result is built with the two readings of datetime.now(), appended, and
\* the loop of generate_layout_ideas goes on or ends.
EndImage(image, tr, cl, now) ==
    IF image.t = "raise" THEN ImageRaised(image, tr, cl, now)
    ELSE \E id_now \in Readings(now) : \E generated_now \in Readings(id_now) :
        LET result == ResultRecord(i, descriptions[i + 1], image, preferences,
                                   ai_service, id_now, generated_now)
            res    == Append(results, result)
        IN  /\ clock' = generated_now
            /\ IF i + 1 < Len(descriptions)
               THEN /\ BeginImage(i + 1, res)
                    /\ UNCHANGED errors
               ELSE /\ ReturnToMain(res, errors)
                    /\ image_url' = image
                    /\ trace' = tr
                    /\ calls' = cl
                    /\ hf_model' = 0
                    /\ UNCHANGED i

\* The cascade ends in the curated fallback: int(time.time()) of
\* _get_curated_image is read at curated_now, before the readings of the
\* result.
EndInFallback(tr, cl) ==
    \E curated_now \in Readings(clock) :
        EndImage(CuratedFallback(preferences, curated_now), tr, cl, curated_now)

\* The Generate button of main, shown when the session holds a service, with
\* preferences: the script run of the click passes the sidebar, then
\* generate_layout_ideas is entered with the service the sidebar left and
\* generate_layout_descriptions sends the prompt to its provider.
StartRequest(prefs, sidebar) ==
    /\ pc = "idle"
    /\ ai_service # NoService
    /\ ai_service' = RunSidebar(ai_service, sidebar)
    /\ pc' = "text"
    /\ preferences' = prefs
    /\ descriptions' = <<>>
    /\ i' = 0
    /\ hf_model' = 0
    /\ image_url' = None
    /\ trace' = <<>>
    /\ calls' = <<RunSidebar(ai_service, sidebar).provider>>
    /\ answered' = 0
    /\ errors' = <<>>
    /\ results' = <<>>
    /\ UNCHANGED <<clock, generated_layouts, saved_layouts, fn_vars, pair_vars>>

\* The Generate button while the session list holds fewer than MaxHistory
\* records.
Generate(prefs, sidebar) ==
    /\ Len(generated_layouts) < MaxHistory
    /\ StartRequest(prefs, sidebar)

\* TextRespond turning to the other provider when the configured one fails.
TextRespondSwitchesProvider(outcome) ==
    /\ pc = "text"
    /\ answered' = answered + 1
    /\ LET got == generate_layout_descriptions(ai_service, outcome)
       IN  IF got.errors # <<>>
           THEN /\ calls' = Append(calls, CHOOSE p \in Providers : p # ai_service.provider)
                /\ UNCHANGED <<pc, descriptions, i, hf_model, image_url, trace, errors,
                               results, generated_layouts>>
           ELSE /\ descriptions' = got.layouts
                /\ IF got.layouts # <<>>
                   THEN /\ BeginImage(0, <<>>)
                        /\ errors' = got.errors
                   ELSE /\ ReturnToMain(<<>>, got.errors)
                        /\ UNCHANGED <<i, hf_model, image_url, trace, calls>>
    /\ UNCHANGED <<ai_service, clock, saved_layouts, preferences, fn_vars, pair_vars>>

\* The text provider answers: generate_layout_descriptions returns, and
\* generate_layout_ideas either starts the image of the first description or
\* returns an empty list.
TextRespond(outcome) ==
    /\ pc = "text"
    /\ answered' = answered + 1
    /\ LET got == generate_layout_descriptions(ai_service, outcome)
       IN  /\ descriptions' = got.layouts
           /\ IF got.layouts # <<>>
              THEN /\ BeginImage(0, <<>>)
                   /\ errors' = got.errors
              ELSE /\ ReturnToMain(<<>>, got.errors)
                   /\ UNCHANGED <<i, hf_model, image_url, trace, calls>>
    /\ UNCHANGED <<ai_service, clock, saved_layouts, preferences, fn_vars, pair_vars>>

\* PollinationsRespond with the Hugging Face strategy left out.
PollinationsRespondSkipsHuggingFace(outcome) ==
    /\ pc = "pollinations"
    /\ answered' = answered + 1
    /\ LET url == _generate_with_pollinations(descriptions[i + 1], preferences, outcome)
       IN  IF Truthy(url)
           THEN EndImage(url, Append(trace, Succeeded), calls, clock)
           ELSE EndInFallback(Append(trace, ExhaustedFallback), calls)
    /\ UNCHANGED <<ai_service, saved_layouts, preferences, descriptions, fn_vars, pair_vars>>

\* PollinationsRespond storing a credential in the service before it turns
\* to Hugging Face.
PollinationsRespondStoresKey(outcome) ==
    /\ pc = "pollinations"
    /\ answered' = answered + 1
    /\ LET url == _generate_with_pollinations(descriptions[i + 1], preferences, outcome)
       IN  IF Truthy(url)
           THEN /\ EndImage(url, Append(trace, Succeeded), calls, clock)
                /\ UNCHANGED ai_service
           ELSE /\ ai_service' = [ai_service EXCEPT !.hf_api_key = Str(<<"hf_token">>)]
                /\ pc' = "huggingface"
                /\ hf_model' = 1
                /\ trace' = Append(trace, TryingStrategy(1))
                /\ calls' = Append(calls, models[1])
                /\ UNCHANGED <<i, image_url, results, errors, generated_layouts, clock>>
    /\ UNCHANGED <<saved_layouts, preferences, descriptions, fn_vars, pair_vars>>

\* The Pollinations request ends.  On status 200 the cascade returns its
\* URL.  (_generate_with_pollinations and _generate_with_huggingface catch
\* every Exception themselves, so for preferences that hold a room type and
\* a style nothing raises inside the try of generate_layout_image and its
\* except clause, which repeats the curated fallback, is not entered.)  Otherwise _generate_with_huggingface runs: without a credential it
\* returns None at once and the curated fallback answers; with one it sends
\* the request for the first model.
PollinationsRespond(outcome) ==
    /\ pc = "pollinations"
    /\ answered' = answered + 1
    /\ LET url == _generate_with_pollinations(descriptions[i + 1], preferences, outcome)
       IN  IF Truthy(url)
           THEN EndImage(url, Append(trace, Succeeded), calls, clock)
           ELSE IF HfKeyMissing(ai_service)
           THEN EndInFallback(trace \o <<TryingStrategy(1), ExhaustedFallback>>, calls)
           ELSE /\ pc' = "huggingface"
                /\ hf_model' = 1
                /\ trace' = Append(trace, TryingStrategy(1))
                /\ calls' = Append(calls, models[1])
                /\ UNCHANGED <<i, image_url, results, errors, generated_layouts, clock>>
    /\ UNCHANGED <<ai_service, saved_layouts, preferences, descriptions, fn_vars, pair_vars>>

\* HuggingFaceRespond starting over at the first model after the last one
\* has failed, the calls of the round being forgotten.
HuggingFaceRespondStartsOver(outcome) ==
    /\ pc = "huggingface"
    /\ LET data == HfModelResult(outcome)
       IN  IF Truthy(data)
           THEN /\ EndImage(data, Append(trace, Succeeded), calls, clock)
                /\ answered' = answered + 1
           ELSE IF hf_model < Len(models)
           THEN /\ hf_model' = hf_model + 1
                /\ calls' = Append(calls, models[hf_model + 1])
                /\ answered' = answered + 1
                /\ UNCHANGED <<pc, i, image_url, trace, results, errors, generated_layouts,
                               clock>>
           ELSE /\ hf_model' = 1
                /\ calls' = SubSeq(calls, 1, Len(calls) - Len(models) + 1)
                /\ answered' = answered - Len(models) + 1
                /\ UNCHANGED <<pc, i, image_url, trace, results, errors, generated_layouts,
                               clock>>
    /\ UNCHANGED <<ai_service, saved_layouts, preferences, descriptions, fn_vars, pair_vars>>

\* The request for model number hf_model ends.  An image longer than
\* MIN_IMAGE_BYTES is returned as a data reference; anything else moves to
\* the next model, and after the last model to the curated fallback.
HuggingFaceRespond(outcome) ==
    /\ pc = "huggingface"
    /\ answered' = answered + 1
    /\ LET data == HfModelResult(outcome)
       IN  IF Truthy(data)
           THEN EndImage(data, Append(trace, Succeeded), calls, clock)
           ELSE IF hf_model < Len(models)
           THEN /\ hf_model' = hf_model + 1
                /\ calls' = Append(calls, models[hf_model + 1])
                /\ UNCHANGED <<pc, i, image_url, trace, results, errors, generated_layouts,
                               clock>>
           ELSE EndInFallback(Append(trace, ExhaustedFallback), calls)
    /\ UNCHANGED <<ai_service, saved_layouts, preferences, descriptions, fn_vars, pair_vars>>

\* A script run of main without a click, after provider was selected or an
\* API key entered, the key field holding a key: a new AIService.
Configure(provider) ==
    /\ pc = "idle"
    /\ ai_service' = RunSidebar(ai_service, [provider |-> provider, api_key |-> "api-key"])
    /\ UNCHANGED <<clock, generated_layouts, saved_layouts, pc, preferences, descriptions, i, hf_model,
                   image_url, trace, calls, answered, errors, results, fn_vars, pair_vars>>

\* The Clear History button of main, shown while the list is not empty: the
\* script run of the click passes the sidebar, then empties the list.
ClearHistory(sidebar) ==
    /\ pc = "idle"
    /\ generated_layouts # <<>>
    /\ ai_service' = RunSidebar(ai_service, sidebar)
    /\ generated_layouts' = <<>>
    /\ UNCHANGED <<clock, saved_layouts, pc, preferences, descriptions, i, hf_model,
                   image_url, trace, calls, answered, errors, results, fn_vars, pair_vars>>

\* A second passes.
Advance ==
    /\ clock' = clock + 1
    /\ UNCHANGED <<ai_service, generated_layouts, saved_layouts, pc, preferences, descriptions, i,
                   hf_model, image_url, trace, calls, answered, errors, results, fn_vars, pair_vars>>

\* A second passes, up to the highest reading of the clock.
Tick ==
    /\ clock < MaxClock
    /\ Advance

\* The request-local variables before the first request.
NoRequest ==
    /\ pc = "idle"
    /\ preferences = NoPreferences
    /\ descriptions = <<>>
    /\ i = 0
    /\ hf_model = 0
    /\ image_url = None
    /\ trace = <<>>
    /\ calls = <<>>
    /\ answered = 0
    /\ errors = <<>>
    /\ results = <<>>

NoFunctionCall ==
    /\ fn_call = [fn |-> "none"]
    /\ fn_ret = None
    /\ fn_done = FALSE

\* One request at a time: no second request waits.
NoPair ==
    /\ running = 0
    /\ suspended = None
    /\ script = None
    /\ interleaved = FALSE

\* The session as initialize_session_state leaves it, with a service that is
\* not configured yet or an AIService whose hf_api_key holds any of HfKeys.
Init ==
    /\ ai_service \in {NoService} \cup
           {[AIService(p, "api-key") EXCEPT !.hf_api_key = k] : p \in Providers, k \in HfKeys}
    /\ clock = 0
    /\ generated_layouts = <<>>
    /\ saved_layouts = <<>>
    /\ NoRequest
    /\ NoFunctionCall
    /\ NoPair

Next ==
    \/ \E prefs \in PreferenceSets, sidebar \in Sidebars : Generate(prefs, sidebar)
    \/ \E outcome \in PipelineTextOutcomes(ai_service) : TextRespond(outcome)
    \/ \E outcome \in PollinationsOutcomes : PollinationsRespond(outcome)
    \/ \E outcome \in HfOutcomes : HuggingFaceRespond(outcome)
    \/ \E provider \in Providers : Configure(provider)
    \/ \E sidebar \in Sidebars : ClearHistory(sidebar)
    \/ Tick

Spec == Init /\ [][Next]_vars

\* ------------------------------------------------------------------------
\* Specification with the requests of the image strategies answered in the
\* end: requests.get and requests.post are called with timeout=30, so each
\* returns a response or raises within its timeout.  It follows the script
\* runs of the clicks on Generate with one form result and the selectbox
\* left at the provider of the service; the other form results, the change
\* of provider and the runs without a request (a change of the sidebar alone,
\* Clear History) are left to Spec.
\* ------------------------------------------------------------------------

\* The preferences of the requests followed to their end.
LivePreferences == {prefs \in PreferenceSets : prefs.room_type = "Bedroom"}

\* The sidebar with the selectbox at the provider of service, the key field
\* empty or holding a key.
SidebarsOf(service) ==
    IF service = NoService THEN {}
    ELSE {sidebar \in Sidebars : sidebar.provider = service.provider}

NextLive ==
    \/ \E prefs \in LivePreferences, sidebar \in SidebarsOf(ai_service) :
          Generate(prefs, sidebar)
    \/ \E outcome \in PipelineTextOutcomes(ai_service) : TextRespond(outcome)
    \/ \E outcome \in PollinationsOutcomes : PollinationsRespond(outcome)
    \/ \E outcome \in HfOutcomes : HuggingFaceRespond(outcome)
    \/ Tick

SpecLive ==
    /\ Init
    /\ [][NextLive]_vars
    /\ WF_vars(\E outcome \in PollinationsOutcomes : PollinationsRespond(outcome))
    /\ WF_vars(\E outcome \in HfOutcomes : HuggingFaceRespond(outcome))

\* ------------------------------------------------------------------------
\* Specification of a session over several requests: main starts without a
\* service, the sidebar configures one (its hf_api_key is None), and the
\* session list grows request by request.
\* ------------------------------------------------------------------------

\* Most result records the session list holds before Generate is refused in
\* the session over several requests.
MaxSessionHistory == 2

\* Most records st.session_state.saved_layouts holds before a save is refused.
MaxSaved == 1

\* Highest reading of the clock in the session over several requests.
MaxSessionClock == 1

\* The provider the sidebar is set to in the session.
SessionProviders == {"gemini"}

\* What the sidebar holds in the script runs of the session.
SessionSidebars == {sidebar \in Sidebars : sidebar.provider \in SessionProviders}

\* The preferences of the requests of the session.
SessionPreferences == {prefs \in PreferenceSets : prefs.room_type = "Bedroom"}

\* What the text provider and Pollinations do in the session: an answer
\* and a failure each.
SessionTextOutcomes ==
    {[kind |-> "text", text |-> ExampleText], [kind |-> "error", cause |-> "timed out"]}

SessionPollinationsOutcomes ==
    {[kind |-> "response", status_code |-> c] : c \in {200, 500}}

\* utils.save_layout_to_session(layout) at the clock reading now: the dict it
\* was given, with the key saved_at added when it was not there, and the
\* list saved_layouts with that dict appended.
save_layout_to_session(layout, saved, now) ==
    LET stamped == IF "saved_at" \in DOMAIN layout THEN layout
                   ELSE layout @@ [saved_at |-> now]
    IN  [layout |-> stamped, saved_layouts |-> Append(saved, stamped)]

\* save_layout_to_session is given record number k of the session list.  The
\* list holds the dict itself, so the key added to it is seen there too.
\* (The function is called on its own: the save button of the layout cards,
\* components.py line 157, reports success without calling it.)
SaveLayout(k) ==
    /\ pc = "idle"
    /\ k \in 1..Len(generated_layouts)
    /\ Len(saved_layouts) < MaxSaved
    /\ LET saved == save_layout_to_session(generated_layouts[k], saved_layouts, clock)
       IN  /\ generated_layouts' = [generated_layouts EXCEPT ![k] = saved.layout]
           /\ saved_layouts' = saved.saved_layouts
    /\ UNCHANGED <<ai_service, clock, pc, preferences, descriptions, i, hf_model,
                   image_url, trace, calls, answered, errors, results, fn_vars, pair_vars>>

\* The Generate button while the session list holds fewer than
\* MaxSessionHistory records.
SessionGenerate(prefs, sidebar) ==
    /\ Len(generated_layouts) < MaxSessionHistory
    /\ StartRequest(prefs, sidebar)

\* A second passes in the session over several requests.
SessionTick ==
    /\ clock < MaxSessionClock
    /\ Advance

\* The session as initialize_session_state leaves it.
InitSession ==
    /\ ai_service = NoService
    /\ clock = 0
    /\ generated_layouts = <<>>
    /\ saved_layouts = <<>>
    /\ NoRequest
    /\ NoFunctionCall
    /\ NoPair

NextSession ==
    \/ \E provider \in SessionProviders : Configure(provider)
    \/ \E prefs \in SessionPreferences, sidebar \in SessionSidebars :
          SessionGenerate(prefs, sidebar)
    \/ \E outcome \in SessionTextOutcomes : TextRespond(outcome)
    \/ \E outcome \in SessionPollinationsOutcomes : PollinationsRespond(outcome)
    \/ \E k \in 1..MaxSessionHistory : SaveLayout(k)
    \/ \E sidebar \in SessionSidebars : ClearHistory(sidebar)
    \/ SessionTick

SpecSession == InitSession /\ [][NextSession]_vars

\* ------------------------------------------------------------------------
\* Specification of two requests on one service: generate_layout_ideas is
\* entered twice with the same AIService object, and the two calls take
\* their steps in any order.  A call gives way to the other one at the
\* points where it waits (before it is entered, at each network call, after
\* it has returned); what the services answer to each call is laid down
\* beforehand, so that the same call can be followed on its own.
\* ------------------------------------------------------------------------

\* The services the two requests are given: an AIService of either provider
\* whose hf_api_key holds any of HfKeys.
PairServices ==
    {[AIService(p, "api-key") EXCEPT !.hf_api_key = k] : p \in Providers, k \in HfKeys}

\* The preferences of request number w.
PairPreferences(w) ==
    {prefs \in PreferenceSets : prefs.room_type = IF w = 1 THEN "Bedroom" ELSE "Kitchen"}

\* What requests.post does for the three models of a request: the second
\* model answers with an image, or none does.
PairHfOutcomes ==
    LET timeout == [kind |-> "exception", cause |-> "Read timed out"]
        image   == [kind |-> "response", status_code |-> 200, content_type |-> IMAGE_PNG,
                    content |-> [bytes |-> "PNG_A", len |-> 2048], is_json |-> FALSE]
    IN  {<<timeout, image, timeout>>, <<timeout, timeout, timeout>>}

\* The preferences of request number w and what its calls are answered.
PairRequests(w) ==
    {[preferences |-> prefs, text |-> t, pollinations |-> g, huggingface |-> h] :
        prefs \in PairPreferences(w), t \in SessionTextOutcomes,
        g \in SessionPollinationsOutcomes, h \in PairHfOutcomes}

\* The for loop of generate_layout_ideas from description number k on:
\* answers[k] holds what Pollinations and the models answer to the image of
\* that description and the readings of the clock taken for it.  An
\* exception of generate_layout_image ends in the except clause, which
\* returns the empty list.
RECURSIVE IdeasLoop(_, _, _, _, _, _)
IdeasLoop(prefs, service, layout_descriptions, answers, k, res) ==
    IF k > Len(layout_descriptions) THEN res
    ELSE LET description == layout_descriptions[k]
             image == generate_layout_image(service, description, prefs,
                                            answers[k].pollinations, answers[k].huggingface,
                                            answers[k].curated_now)
         IN  IF image.ret.t = "raise" THEN <<>>
             ELSE IdeasLoop(prefs, service, layout_descriptions, answers, k + 1,
                            Append(res, ResultRecord(k - 1, description, image.ret, prefs,
                                                     service, answers[k].id_now,
                                                     answers[k].generated_now)))

\* generate_layout_ideas(preferences, ai_service) as one function of what it
\* is given and of what it is answered: the list it returns.  Preferences
\* without a key of the prompt raise KeyError in generate_layout_descriptions
\* before its try, which the except clause turns into the empty list.
generate_layout_ideas(prefs, service, text, answers) ==
    IF FirstMissing(prefs, RequiredKeys) # "" THEN <<>>
    ELSE IdeasLoop(prefs, service, generate_layout_descriptions(service, text).layouts,
                   answers, 1, <<>>)

\* The request variables, taken together.
RequestVariables ==
    [pc |-> pc, preferences |-> preferences, descriptions |-> descriptions, i |-> i,
     hf_model |-> hf_model, image_url |-> image_url, trace |-> trace, calls |-> calls,
     answered |-> answered, errors |-> errors, results |-> results]

\* The request variables of a request that has not been entered yet.
NotEntered ==
    [pc |-> "idle", preferences |-> NoPreferences, descriptions |-> <<>>, i |-> 0,
     hf_model |-> 0, image_url |-> None, trace |-> <<>>, calls |-> <<>>,
     answered |-> 0, errors |-> <<>>, results |-> <<>>]

\* The request variables of request number w.
RequestOf(w) == IF w = running THEN RequestVariables ELSE suspended

\* Request number w has returned.
ReturnedOf(w) == RequestOf(w).pc = "idle" /\ RequestOf(w).calls # <<>>

\* The request that has the turn is entered: generate_layout_ideas with its
\* preferences and the shared service, the key field of the sidebar empty.
PairStart ==
    /\ running # 0
    /\ calls = <<>>
    /\ StartRequest(script.requests[running].preferences,
                    [provider |-> ai_service.provider, api_key |-> ""])

\* The calls of the request that has the turn are answered as laid down.
PairTextRespond ==
    /\ running # 0
    /\ TextRespond(script.requests[running].text)

PairPollinationsRespond ==
    /\ running # 0
    /\ PollinationsRespond(script.requests[running].pollinations)

PairHuggingFaceRespond ==
    /\ running # 0
    /\ pc = "huggingface"
    /\ HuggingFaceRespond(script.requests[running].huggingface[hf_model])

\* The request that has the turn, entered already, gives way to the other
\* one, unless both have returned.  The service, the clock and the session
\* lists are the same for both and stay where they are.
Switch ==
    /\ running # 0
    /\ calls # <<>>
    /\ ~(ReturnedOf(1) /\ ReturnedOf(2))
    /\ running' = 3 - running
    /\ suspended' = RequestVariables
    /\ pc' = suspended.pc
    /\ preferences' = suspended.preferences
    /\ descriptions' = suspended.descriptions
    /\ i' = suspended.i
    /\ hf_model' = suspended.hf_model
    /\ image_url' = suspended.image_url
    /\ trace' = suspended.trace
    /\ calls' = suspended.calls
    /\ answered' = suspended.answered
    /\ errors' = suspended.errors
    /\ results' = suspended.results
    /\ interleaved' = (interleaved \/ (pc # "idle" /\ suspended.pc # "idle"))
    /\ UNCHANGED <<ai_service, clock, generated_layouts, saved_layouts, script, fn_vars>>

\* Two requests, neither entered yet, with one service of PairServices.
InitPair ==
    /\ ai_service \in PairServices
    /\ clock = 0
    /\ generated_layouts = <<>>
    /\ saved_layouts = <<>>
    /\ NoRequest
    /\ NoFunctionCall
    /\ running = 1
    /\ suspended = NotEntered
    /\ script \in {[service |-> ai_service, requests |-> <<a, b>>] :
                      a \in PairRequests(1), b \in PairRequests(2)}
    /\ interleaved = FALSE

NextPair ==
    \/ PairStart
    \/ PairTextRespond
    \/ PairPollinationsRespond
    \/ PairHuggingFaceRespond
    \/ Switch
    \/ Tick

SpecPair == InitPair /\ [][NextPair]_vars

\* ------------------------------------------------------------------------
\* Specification of the functions applied on their own: the call is drawn
\* from FunctionCalls, the action of the function named returns its value.
\* ------------------------------------------------------------------------

Return(value) ==
    /\ ~fn_done
    /\ fn_ret' = value
    /\ fn_done' = TRUE
    /\ UNCHANGED <<fn_call, app_vars, pair_vars>>

ApplyParseLayoutResponse ==
    /\ fn_call.fn = "_parse_layout_response"
    /\ Return(_parse_layout_response(fn_call.response))

ApplyMapRoomType ==
    /\ fn_call.fn = "_map_room_type"
    /\ Return(_map_room_type(fn_call.room_type))

ApplyMapStyle ==
    /\ fn_call.fn = "_map_style"
    /\ Return(_map_style(fn_call.style))

ApplyGetCuratedImage ==
    /\ fn_call.fn = "_get_curated_image"
    /\ Return(_get_curated_image(fn_call.room_type, fn_call.style, fn_call.now))

ApplyGenerateWithGemini ==
    /\ fn_call.fn = "_generate_with_gemini"
    /\ Return(_generate_with_gemini(fn_call.outcome))

ApplyGenerateWithOpenai ==
    /\ fn_call.fn = "_generate_with_openai"
    /\ Return(_generate_with_openai(fn_call.outcome))

ApplyGenerateLayoutWithGemini ==
    /\ fn_call.fn = "generate_layout_with_gemini"
    /\ Return(generate_layout_with_gemini(fn_call.outcome))

ApplyGenerateLayoutWithOpenai ==
    /\ fn_call.fn = "generate_layout_with_openai"
    /\ Return(generate_layout_with_openai(fn_call.outcome))

ApplyCreateLayoutPrompt ==
    /\ fn_call.fn = "_create_layout_prompt"
    /\ Return(_create_layout_prompt(fn_call.preferences))

ApplyGenerateWithPollinations ==
    /\ fn_call.fn = "_generate_with_pollinations"
    /\ Return(_generate_with_pollinations(fn_call.description, fn_call.preferences,
                                          fn_call.outcome))

ApplyGenerateWithHuggingFace ==
    /\ fn_call.fn = "_generate_with_huggingface"
    /\ Return(_generate_with_huggingface(fn_call.service, fn_call.description,
                                         fn_call.preferences, fn_call.outcomes))

\* generate_layout_image applied on its own: what it did goes to fn_ret, the
\* messages given to st.error to errors as well.
ApplyGenerateLayoutImage ==
    /\ fn_call.fn = "generate_layout_image"
    /\ ~fn_done
    /\ LET got == generate_layout_image(fn_call.service, fn_call.description,
                                        fn_call.preferences, fn_call.pollinations,
                                        fn_call.huggingface, fn_call.now)
       IN  /\ fn_ret' = got
           /\ errors' = got.errors
    /\ fn_done' = TRUE
    /\ UNCHANGED <<fn_call, ai_service, clock, generated_layouts, saved_layouts, pc,
                   preferences, descriptions, i, hf_model, image_url, trace, calls,
                   answered, results, pair_vars>>

ApplyCuratedFallback ==
    /\ fn_call.fn = "curated_fallback"
    /\ Return(curated_fallback(fn_call.room_type, fn_call.style, fn_call.now))

\* The constructor applied on its own: the object or the exception goes to
\* fn_ret, the messages given to st.error to errors.
ApplyAIService ==
    /\ fn_call.fn = "AIService"
    /\ ~fn_done
    /\ fn_ret' = AIService(fn_call.provider, fn_call.api_key)
    /\ errors' = SetupClientErrors(fn_call.provider, fn_call.api_key)
    /\ fn_done' = TRUE
    /\ UNCHANGED <<fn_call, ai_service, clock, generated_layouts, saved_layouts, pc,
                   preferences, descriptions, i, hf_model, image_url, trace, calls,
                   answered, results, pair_vars>>

InitFun ==
    /\ ai_service = NoService
    /\ clock = 0
    /\ generated_layouts = <<>>
    /\ saved_layouts = <<>>
    /\ NoRequest
    /\ fn_call \in FunctionCalls \cup PreferenceFunctionCalls \cup ImageFunctionCalls
                  \cup CuratedFallbackCalls \cup ConstructorCalls
    /\ fn_ret = None
    /\ fn_done = FALSE
    /\ NoPair

NextFun ==
    \/ ApplyParseLayoutResponse
    \/ ApplyMapRoomType
    \/ ApplyMapStyle
    \/ ApplyGetCuratedImage
    \/ ApplyGenerateWithGemini
    \/ ApplyGenerateWithOpenai
    \/ ApplyGenerateLayoutWithGemini
    \/ ApplyGenerateLayoutWithOpenai
    \/ ApplyCreateLayoutPrompt
    \/ ApplyGenerateWithPollinations
    \/ ApplyGenerateWithHuggingFace
    \/ ApplyGenerateLayoutImage
    \/ ApplyCuratedFallback
    \/ ApplyAIService

SpecFun == InitFun /\ [][NextFun]_vars

\* ========================================================================
\* Properties
\* ========================================================================

Range(seq) == {seq[k] : k \in 1..Len(seq)}

\* ------------------------------------------------------------------------
\* The parser, stated on the positions of the marker in the text
\* ------------------------------------------------------------------------

\* The indices at which the marker "LAYOUT" occurs in s.
MarkerStarts(s) ==
    {p \in 1..Len(s) :
        /\ p + 5 <= Len(s)
        /\ s[p] = "L" /\ s[p + 1] = "A" /\ s[p + 2] = "Y"
        /\ s[p + 3] = "O" /\ s[p + 4] = "U" /\ s[p + 5] = "T"}

MarkerCount(s) == Cardinality(MarkerStarts(s))

\* The index of the k-th occurrence.
NthMarker(s, k) ==
    CHOOSE p \in MarkerStarts(s) : Cardinality({q \in MarkerStarts(s) : q < p}) = k - 1

\* The text between the k-th occurrence and the next one, or the end.
BodyAfter(s, k) ==
    SubSeq(s, NthMarker(s, k) + 6,
           IF k < MarkerCount(s) THEN NthMarker(s, k + 1) - 1 ELSE Len(s))

HasColon(b) == \E j \in 1..Len(b) : b[j] = ":"

\* b with everything up to and including its first colon removed.
AfterFirstColon(b) ==
    LET c == CHOOSE j \in 1..Len(b) : b[j] = ":" /\ \A h \in 1..(j - 1) : b[h] # ":"
    IN  SubSeq(b, c + 1, Len(b))

IsBlank(b) == \A j \in 1..Len(b) : b[j] \in Whitespace

\* b without its leading and trailing whitespace.
Trimmed(b) ==
    IF IsBlank(b) THEN <<>>
    ELSE LET ink == {j \in 1..Len(b) : b[j] \notin Whitespace}
             lo  == CHOOSE j \in ink : \A h \in ink : j <= h
             hi  == CHOOSE j \in ink : \A h \in ink : h <= j
         IN  SubSeq(b, lo, hi)

\* What is left of a segment: trimmed, cut after the first colon if there
\* is one, trimmed again.
SegmentText(b) ==
    Trimmed(IF HasColon(b) THEN AfterFirstColon(Trimmed(b)) ELSE Trimmed(b))

\* Every occurrence of the marker is followed by a colon and a body that is
\* not blank.
WellFormedLayouts(s) ==
    /\ MarkerCount(s) >= 1
    /\ \A k \in 1..MarkerCount(s) :
          /\ HasColon(BodyAfter(s, k))
          /\ ~IsBlank(AfterFirstColon(BodyAfter(s, k)))

ParseReturned ==
    fn_done /\ fn_call.fn = "_parse_layout_response"

Foo == <<"F", "o", "o">>

Bar == <<"B", "a", "r">>

\* C5: for a text with N >= 1 markers, each followed by a colon and a body
\* that is not blank, _parse_layout_response returns N elements in order of
\* appearance, the k-th being the k-th body after its first colon, trimmed;
\* "LAYOUT 1:\nFoo\nLAYOUT 2:\nBar" yields ["Foo", "Bar"].
C5_ParseWellFormed ==
    ParseReturned =>
        /\ WellFormedLayouts(fn_call.response) =>
              fn_ret = [k \in 1..MarkerCount(fn_call.response) |->
                          Trimmed(AfterFirstColon(BodyAfter(fn_call.response, k)))]
        /\ fn_call.response = ExampleText => fn_ret = <<Foo, Bar>>

\* A text of two markers with text before the first one has been parsed
\* into its two bodies.
C5_Witness ==
    /\ ParseReturned
    /\ fn_call.response = <<"x">> \o LAYOUT \o <<":", "x">> \o LAYOUT \o <<":", "x">>
    /\ fn_ret = <<<<"x">>, <<"x">>>>

\* C6: _parse_layout_response returns the empty list exactly when the text
\* is blank; when the text is not blank and no segment survives it returns
\* the whole trimmed text as its only element; every element it returns is
\* non-empty and has no whitespace at either end.
C6_ParseDegrades ==
    ParseReturned =>
        LET s == fn_call.response
            none_survives == \A k \in 1..MarkerCount(s) : SegmentText(BodyAfter(s, k)) = <<>>
        IN  /\ (fn_ret = <<>>) <=> IsBlank(s)
            /\ (~IsBlank(s) /\ none_survives) => fn_ret = <<Trimmed(s)>>
            /\ \A k \in 1..Len(fn_ret) :
                  /\ fn_ret[k] # <<>>
                  /\ fn_ret[k][1] \notin Whitespace
                  /\ fn_ret[k][Len(fn_ret[k])] \notin Whitespace

\* A text whose only marker has an empty body came back as one element, the
\* whole text without the whitespace around it.
C6_Witness ==
    /\ ParseReturned
    /\ fn_call.response = <<" ">> \o LAYOUT \o <<":", " ">>
    /\ fn_ret = <<LAYOUT \o <<":">>>>

\* ------------------------------------------------------------------------
\* Normalisation and the curated lookup
\* ------------------------------------------------------------------------

CanonicalRooms == {"living", "bedroom", "kitchen", "bathroom", "office", "dining"}

CanonicalStyles == {"modern", "traditional", "scandinavian", "industrial", "bohemian"}

\* C7: _map_room_type returns a canonical room type and _map_style a
\* canonical style for every string, and a string that is no key of the
\* lookup is mapped to "living", respectively "modern".
C7_NormalizationTotal ==
    /\ (fn_done /\ fn_call.fn = "_map_room_type") =>
          /\ fn_ret \in CanonicalRooms
          /\ fn_call.room_type \notin DOMAIN room_mapping => fn_ret = "living"
    /\ (fn_done /\ fn_call.fn = "_map_style") =>
          /\ fn_ret \in CanonicalStyles
          /\ fn_call.style \notin DOMAIN style_mapping => fn_ret = "modern"

\* A label that is no key of the lookup has been mapped to the default.
C7_Witness ==
    /\ fn_done
    /\ fn_call.fn = "_map_room_type"
    /\ fn_call.room_type = "Guest Room"
    /\ fn_ret = "living"

\* The URLs the rule of the curated fallback selects among.
CuratedCandidates(room_type, style) ==
    IF room_type \in DOMAIN curated_images /\ style \in DOMAIN curated_images[room_type]
    THEN Range(curated_images[room_type][style])
    ELSE IF room_type \in DOMAIN curated_images
    THEN IF "modern" \in DOMAIN curated_images[room_type]
         THEN Range(curated_images[room_type]["modern"])
         ELSE UNION {Range(curated_images[room_type][s]) : s \in DOMAIN curated_images[room_type]}
    ELSE {"https://images.pexels.com/photos/1571460/pexels-photo-1571460.jpeg"}

\* C8: _get_curated_image returns an URL of the entry of (room, style) when
\* the pair is in the table, an URL of the room's "modern" entry (or of some
\* entry of the room) when only the room is, and the global default URL when
\* the room is not in the table.
C8_CuratedRule ==
    (fn_done /\ fn_call.fn = "_get_curated_image") =>
        fn_ret \in {Str(<<url>>) : url \in CuratedCandidates(fn_call.room_type, fn_call.style)}

\* ------------------------------------------------------------------------
\* The image cascade
\* ------------------------------------------------------------------------

\* x is a str that is not empty.
NonEmptyStr(x) ==
    /\ x.t = "str"
    /\ x.v # <<>>
    /\ \A k \in 1..Len(x.v) : x.v[k] # ""

\* generate_layout_image has returned from its latest call.
CascadeReturned ==
    trace # <<>> /\ Last(trace) \in {Succeeded, ExhaustedFallback}

\* Every URL of the curated table, and the global default.
CuratedUrls ==
    UNION {Range(curated_images[r][s]) : r \in CanonicalRooms, s \in CanonicalStyles}
    \cup {GLOBAL_DEFAULT_IMAGE}

HfModels == Range(models)

\* C1: whatever the remote strategies did, generate_layout_image returns a
\* non-empty str: the value of its latest call and the image_url of every
\* result record are never None, never an exception and never "".
C1_ImageAlwaysReturned ==
    /\ CascadeReturned => NonEmptyStr(image_url)
    /\ \A k \in 1..Len(results) : NonEmptyStr(results[k].image_url)
    /\ \A k \in 1..Len(generated_layouts) : NonEmptyStr(generated_layouts[k].image_url)

\* Pollinations failed and, with a credential present, all three Hugging
\* Face models were asked and failed; an image reference came back.
C1_Witness ==
    /\ pc = "idle"
    /\ ai_service # NoService
    /\ Truthy(ai_service.hf_api_key)
    /\ calls = <<ai_service.provider, "pollinations">> \o models
    /\ trace = <<TryingStrategy(0), TryingStrategy(1), ExhaustedFallback>>
    /\ NonEmptyStr(image_url)

\* The transitions of the cascade: from strategy 0 to success or strategy
\* 1, from strategy 1 to success or the exhausted fallback.
CascadeStep(a, b) ==
    \/ a = TryingStrategy(0) /\ b \in {Succeeded, TryingStrategy(1)}
    \/ a = TryingStrategy(1) /\ b \in {Succeeded, ExhaustedFallback}

\* C2: the cascade starts at strategy 0 and moves only from a failed
\* strategy to the next one, from the last strategy to ExhaustedFallback,
\* or to Succeeded; nothing follows Succeeded or ExhaustedFallback; the
\* Pollinations request precedes every Hugging Face request; and
\* ExhaustedFallback hands back an URL of the curated table.
C2_CascadeStateMachine ==
    /\ trace # <<>> => trace[1] = TryingStrategy(0)
    /\ \A k \in 1..(Len(trace) - 1) : CascadeStep(trace[k], trace[k + 1])
    /\ \A k \in 1..Len(calls) :
          calls[k] \in HfModels =>
              /\ TryingStrategy(1) \in Range(trace)
              /\ \E j \in 1..(k - 1) : calls[j] = "pollinations"
    /\ (trace # <<>> /\ Last(trace) = ExhaustedFallback) =>
          /\ image_url.t = "str"
          /\ Len(image_url.v) = 1
          /\ image_url.v[1] \in CuratedUrls

\* Without a credential the cascade went from Pollinations through the
\* Hugging Face strategy to the curated fallback.
C2_Witness ==
    /\ pc = "idle"
    /\ ai_service # NoService
    /\ ~Truthy(ai_service.hf_api_key)
    /\ trace = <<TryingStrategy(0), TryingStrategy(1), ExhaustedFallback>>
    /\ calls = <<ai_service.provider, "pollinations">>

\* A response of a Hugging Face model that counts as an image.
HfImageResponse(o) ==
    /\ o.kind = "response"
    /\ o.status_code = 200
    /\ o.content_type \in {IMAGE_PNG, IMAGE_WEBP}
    /\ o.content.len > 1000

\* C3: when Pollinations answers with status 200 the cascade returns the
\* URL it requested, sends no Hugging Face request and ends; when a Hugging
\* Face model answers with an image the cascade returns the data reference
\* of that image, asks no later model and ends.
C3_FirstSuccessWins ==
    [][/\ \A o \in PollinationsOutcomes :
             (o.kind = "response" /\ o.status_code = 200 /\ PollinationsRespond(o)) =>
                 /\ image_url' = Str(PollinationsUrl(descriptions[i + 1], preferences))
                 /\ calls' = calls
                 /\ trace' = <<TryingStrategy(0), Succeeded>>
                 /\ pc' = "idle"
                 /\ Last(results').image_url = image_url'
       /\ \A o \in HfOutcomes :
             (HfImageResponse(o) /\ HuggingFaceRespond(o)) =>
                 /\ image_url' = Str(<<"data:image/png;base64,", b64encode[o.content.bytes]>>)
                 /\ calls' = calls
                 /\ trace' = <<TryingStrategy(0), TryingStrategy(1), Succeeded>>
                 /\ pc' = "idle"
                 /\ Last(results').image_url = image_url']_vars

\* The second Hugging Face model answered with an image: the third was not
\* asked and the data reference is the result.
C3_Witness ==
    /\ pc = "idle"
    /\ ai_service # NoService
    /\ calls = <<ai_service.provider, "pollinations", models[1], models[2]>>
    /\ trace = <<TryingStrategy(0), TryingStrategy(1), Succeeded>>
    /\ image_url = Str(<<"data:image/png;base64,", "base64(PNG_A)">>)
    /\ Len(generated_layouts) = 1
    /\ generated_layouts[1].image_url = image_url

\* C4: when the text provider's call raises, generate_layout_descriptions
\* and generate_layout_ideas return empty lists, no image strategy is
\* attempted, the session list stays as it was, and the failure is given to
\* st.error with the provider and the cause instead of being raised.
C4_TextFailureYieldsNothing ==
    [][\A o \in PipelineTextOutcomes(ai_service) :
          (o.kind = "error" /\ TextRespond(o)) =>
              /\ descriptions' = <<>>
              /\ results' = <<>>
              /\ generated_layouts' = generated_layouts
              /\ calls' = <<ai_service.provider>>
              /\ trace' = <<>>
              /\ image_url' = None
              /\ pc' = "idle"
              /\ errors'[1] = <<"Error generating layouts: ",
                                IF ai_service.provider = "gemini"
                                THEN "Gemini generation error: "
                                ELSE "OpenAI generation error: ",
                                o.cause>>]_vars

\* A Gemini call that timed out ended the request with no result and the
\* reason on the page.
C4_Witness ==
    /\ pc = "idle"
    /\ ai_service # NoService
    /\ ai_service.provider = "gemini"
    /\ calls = <<"gemini">>
    /\ results = <<>>
    /\ generated_layouts = <<>>
    /\ errors = <<<<"Error generating layouts: ", "Gemini generation error: ", "timed out">>,
                  <<"Failed to generate layouts. Please try again.">>>>

\* The "modern" entry of "bedroom" in the curated table.
BedroomModern ==
    <<"https://images.pexels.com/photos/164595/pexels-photo-164595.jpeg",
      "https://images.pexels.com/photos/1454806/pexels-photo-1454806.jpeg",
      "https://images.pexels.com/photos/1080696/pexels-photo-1080696.jpeg">>

\* C9: when every remote strategy fails and the clock reads t,
\* generate_layout_image returns element t mod n (counted from 0) of the
\* n-element list of the normalised (room, style) pair, whatever the
\* description, the service and the failures are; for Bedroom / Modern this
\* is an element of the bedroom/modern list.
C9_CuratedDeterministic ==
    (/\ fn_done
     /\ fn_call.fn = "generate_layout_image"
     /\ {"room_type", "style"} \subseteq DOMAIN fn_call.preferences
     /\ ~(fn_call.pollinations.kind = "response" /\ fn_call.pollinations.status_code = 200)
     /\ \/ "hf_api_key" \notin DOMAIN fn_call.service
        \/ ~Truthy(fn_call.service.hf_api_key)
        \/ \A k \in 1..Len(fn_call.huggingface) : ~HfImageResponse(fn_call.huggingface[k])) =>
        LET room   == DictGet(room_mapping, fn_call.preferences.room_type, "living")
            style  == DictGet(style_mapping, fn_call.preferences.style, "modern")
            images == curated_images[room][style]
            n      == Len(images)
        IN  /\ fn_ret.ret = Str(<<images[(fn_call.now % n) + 1]>>)
            /\ (fn_call.preferences.room_type = "Bedroom"
                    /\ fn_call.preferences.style = "Modern") =>
                  fn_ret.ret = Str(<<BedroomModern[(fn_call.now % 3) + 1]>>)

\* Bedroom / Modern with every remote strategy failing at clock reading 2:
\* the third URL of the bedroom/modern list came back.
C9_Witness ==
    /\ fn_done
    /\ fn_call.fn = "generate_layout_image"
    /\ "style" \in DOMAIN fn_call.preferences
    /\ "room_type" \in DOMAIN fn_call.preferences
    /\ fn_call.preferences.room_type = "Bedroom"
    /\ fn_call.preferences.style = "Modern"
    /\ fn_call.pollinations = [kind |-> "response", status_code |-> 500]
    /\ "hf_api_key" \in DOMAIN fn_call.service
    /\ Truthy(fn_call.service.hf_api_key)
    /\ fn_call.now = 2
    /\ fn_ret.sent = <<"pollinations">> \o models
    /\ fn_ret.ret = Str(<<"https://images.pexels.com/photos/1080696/pexels-photo-1080696.jpeg">>)

\* ------------------------------------------------------------------------
\* The outbound calls of one request
\* ------------------------------------------------------------------------

\* C11: a request contacts exactly one text provider, the one its AIService
\* was constructed with, and contacts it once: the first call of the request
\* goes to that provider and no later call goes to a text provider, whether
\* the first one failed or not.
C11_OneProviderOnce ==
    /\ \A k \in 1..Len(calls) : (calls[k] \in Providers) <=> (k = 1)
    /\ (pc # "idle") => (calls[1] = ai_service.provider)

\* The OpenAI call failed and the request ended with that single call.
C11_Witness ==
    /\ pc = "idle"
    /\ ai_service # NoService
    /\ ai_service.provider = "openai"
    /\ calls = <<"openai">>
    /\ answered = 1
    /\ Len(errors) = 2

\* The calls sent and not ended yet.
InFlight == Len(calls) - answered

\* The calls a request with one description can make, in the order of the code.
CallOrder(provider) == <<provider, "pollinations">> \o models

\* C12: at most one outbound call is in flight at any time.  A call is sent
\* only when every earlier call of the request has ended, and the calls
\* follow the order of the code: the text call, then the Pollinations
\* request, then the Hugging Face models one after the other.
C12_OneCallInFlight ==
    /\ InFlight \in {0, 1}
    /\ (InFlight = 1) <=> (pc # "idle")
    /\ calls # <<>> =>
          /\ Len(calls) <= Len(CallOrder(calls[1]))
          /\ calls = SubSeq(CallOrder(calls[1]), 1, Len(calls))
    /\ (pc = "text") => (Len(calls) = 1)
    /\ (pc = "pollinations") => (Len(calls) = 2)
    /\ (pc = "huggingface") => (Len(calls) = 2 + hf_model)

\* The request waits for the second Hugging Face model: three calls have
\* ended and the fourth is the only one in flight.
C12_Witness ==
    /\ pc = "huggingface"
    /\ hf_model = 2
    /\ Len(calls) = 4
    /\ answered = 3
    /\ calls[4] = models[2]

\* ------------------------------------------------------------------------
\* The result records
\* ------------------------------------------------------------------------

\* A request has been made and generate_layout_ideas has returned.
RequestReturned == pc = "idle" /\ calls # <<>>

\* C13: generate_layout_ideas returns one result record per description of
\* the text stage, in the same order.  Record number k carries description
\* number k unchanged, a non-empty image reference (for the last record the
\* one the cascade returned last), the preferences of the request and the
\* provider the service was configured with, which is the provider the
\* request contacted.
C13_OneRecordPerDescription ==
    RequestReturned =>
        /\ Len(results) = Len(descriptions)
        /\ \A k \in 1..Len(results) :
              /\ results[k].description = descriptions[k]
              /\ NonEmptyStr(results[k].image_url)
              /\ (k = Len(results)) => (results[k].image_url = image_url)
              /\ results[k].preferences = preferences
              /\ results[k].ai_provider = calls[1]
              /\ results[k].ai_provider \in Providers

\* A Gemini request for the rustic kitchen returned one record: the
\* description "Foo" with the Pollinations URL.
C13_Witness ==
    /\ RequestReturned
    /\ descriptions = <<Foo>>
    /\ Len(results) = 1
    /\ results[1].description = Foo
    /\ results[1].preferences.room_type = "Kitchen"
    /\ results[1].ai_provider = "gemini"
    /\ calls = <<"gemini", "pollinations">>
    /\ results[1].image_url = image_url

\* C14: no two result records of the session list have the same id, also
\* when two requests read the clock in the same second.
C14_IdsUnique ==
    \A j, k \in 1..Len(generated_layouts) :
        (j # k) => (generated_layouts[j].id # generated_layouts[k].id)

\* C15: records do not change once produced.  While a request runs its
\* preferences stay as they were given, and a step that leaves a result
\* record in the session list leaves every field of it as it was and adds
\* no field to it.
C15_RecordsImmutable ==
    [][/\ (pc # "idle") => (preferences' = preferences)
       /\ \A k \in 1..Len(generated_layouts) :
             (k <= Len(generated_layouts')) =>
                 (generated_layouts'[k] = generated_layouts[k])]_vars

\* ------------------------------------------------------------------------
\* The state requests share
\* ------------------------------------------------------------------------

\* The readings of the clock a request can take for one description, in the
\* order it takes them: int(time.time()) of the curated fallback, then the
\* two datetime.now() of the result.
ClockReadings ==
    {r \in [curated_now : 0..MaxClock, id_now : 0..MaxClock, generated_now : 0..MaxClock] :
        r.curated_now <= r.id_now /\ r.id_now <= r.generated_now}

\* What request number w returns when it runs alone on the service the two
\* were given, with the answers laid down for it and the clock read at
\* readings.
ReturnsAlone(w, readings) ==
    generate_layout_ideas(script.requests[w].preferences, script.service,
                          script.requests[w].text,
                          <<[pollinations |-> script.requests[w].pollinations,
                             huggingface |-> script.requests[w].huggingface,
                             curated_now |-> readings.curated_now,
                             id_now |-> readings.id_now,
                             generated_now |-> readings.generated_now]>>)

\* C16: two requests on one AIService do not interfere.  In every state of
\* every interleaving of the two, the service is the object they were given,
\* with its provider, api_key, hf_api_key, current_provider and client as
\* __init__ left them; and a request that has returned has returned the list
\* it returns when it runs alone on that service with the same answers of
\* the text provider, of Pollinations and of the models, and with the
\* readings of the clock its records carry.  (The curated table is a local
\* literal of _get_curated_image, built anew by every call, and a constant
\* of this module: there is nothing of it a request could write.)
C16_NoInterference ==
    (running # 0) =>
        /\ ai_service = script.service
        /\ \A w \in 1..2 :
              ReturnedOf(w) =>
                  \E readings \in ClockReadings :
                      RequestOf(w).results = ReturnsAlone(w, readings)

\* Both requests have returned on a service with a credential for Hugging
\* Face, one of them having given way to the other while both waited for a
\* call: the first got the image of the second model, the second went
\* through all three models to the curated fallback.
C16_Witness ==
    /\ running # 0
    /\ interleaved
    /\ ReturnedOf(1)
    /\ ReturnedOf(2)
    /\ ai_service.hf_api_key = Str(<<"hf_token">>)
    /\ RequestOf(1).calls = <<"openai", "pollinations", models[1], models[2]>>
    /\ Last(RequestOf(1).trace) = Succeeded
    /\ Len(RequestOf(1).results) = 1
    /\ Len(RequestOf(2).calls) = 5
    /\ Last(RequestOf(2).trace) = ExhaustedFallback
    /\ Len(RequestOf(2).results) = 1
    /\ RequestOf(1).results[1].image_url # RequestOf(2).results[1].image_url

\* ------------------------------------------------------------------------
\* The prompt for the text provider
\* ------------------------------------------------------------------------

\* sub occurs in seq as a run of neighbouring pieces.
Contains(seq, sub) ==
    \E k \in 0..(Len(seq) - Len(sub)) : SubSeq(seq, k + 1, k + Len(sub)) = sub

\* A preferences dict that holds the four fields every form result has.
WellFormedPreferences(prefs) ==
    {"room_type", "style", "budget", "space_size"} \subseteq DOMAIN prefs

\* Replacement fields left as they are written in the template.
Placeholders ==
    {"{room_type}", "{style}", "{budget}", "{space_size}", "{colors}", "{features}",
     "{description}", "{preferences['room_type']}", "{preferences['style']}",
     "{preferences['budget']}", "{preferences['space_size']}",
     "{', '.join(preferences.get('colors', []))}",
     "{', '.join(preferences.get('features', []))}",
     "{preferences.get('description', '')}"}

\* The list a prompt shows for the key of a preferences dict: its elements
\* with ", " between them, nothing for an empty or missing list.
ShownList(prefs, key) ==
    LET list == IF key \in DOMAIN prefs THEN prefs[key] ELSE <<>>
    IN  [k \in 1..(IF list = <<>> THEN 0 ELSE 2 * Len(list) - 1) |->
            IF k % 2 = 1 THEN list[(k + 1) \div 2] ELSE ", "]

\* The free text a prompt shows: nothing when it is empty or missing.
ShownNotes(prefs) ==
    IF "description" \in DOMAIN prefs /\ prefs.description # ""
    THEN <<prefs.description>> ELSE <<>>

\* C17: for every well-formed preferences dict _create_layout_prompt returns
\* a prompt that holds the room type, the style, the budget and the space
\* size, and whose lines of colours, features and notes hold the colours
\* joined by ", ", the features joined by ", " and the free text, each right
\* after its label and right before the next line; an empty or missing list
\* leaves its line empty, and no replacement field is left unreplaced.
C17_PromptInterpolatesEveryField ==
    (/\ fn_done
     /\ fn_call.fn = "_create_layout_prompt"
     /\ WellFormedPreferences(fn_call.preferences)) =>
        LET prefs == fn_call.preferences
        IN  /\ fn_ret.t = "str"
            /\ Contains(fn_ret.v, <<prefs.room_type>>)
            /\ Contains(fn_ret.v, <<"Style: ", prefs.style>>)
            /\ Contains(fn_ret.v, <<"Budget Range: ", prefs.budget>>)
            /\ Contains(fn_ret.v, <<"Space Size: ", prefs.space_size>>)
            /\ Contains(fn_ret.v,
                        <<"Color Preferences: ">> \o ShownList(prefs, "colors") \o
                        <<NL, "Special Features: ">> \o ShownList(prefs, "features") \o
                        <<NL, "Additional Notes: ">> \o ShownNotes(prefs) \o
                        <<NL, NL, "For the layout, provide:">>)
            /\ Range(fn_ret.v) \cap Placeholders = {}

\* The prompt of the modern living room in white and gray.
C17_Witness ==
    /\ fn_done
    /\ fn_call.fn = "_create_layout_prompt"
    /\ fn_call.preferences.room_type = "Living Room"
    /\ fn_ret.t = "str"
    /\ Contains(fn_ret.v, <<"Living Room">>)
    /\ Contains(fn_ret.v, <<"Modern">>)
    /\ Contains(fn_ret.v, <<"White", ", ", "Gray">>)

\* ------------------------------------------------------------------------
\* The remote image strategies on their own
\* ------------------------------------------------------------------------

\* The GET request of the Pollinations strategy was made and answered 200.
PollinationsSucceeds(call) ==
    /\ {"room_type", "style"} \subseteq DOMAIN call.preferences
    /\ call.outcome.kind = "response"
    /\ call.outcome.status_code = 200

\* C18: _generate_with_pollinations never raises.  It returns the URL of its
\* request, which begins with the address of the service and ends with the
\* parameters, exactly when the request was answered with status 200; for
\* every other status, a timeout or another exception of the request, and
\* an exception raised while the prompt was built, it returns None.
C18_PollinationsSuccessIff200 ==
    (fn_done /\ fn_call.fn = "_generate_with_pollinations") =>
        /\ fn_ret.t # "raise"
        /\ PollinationsSucceeds(fn_call) =>
              /\ NonEmptyStr(fn_ret)
              /\ fn_ret.v[1] = "https://image.pollinations.ai/prompt/"
              /\ Last(fn_ret.v) = "?width=512&height=512&model=flux&enhance=true&nologo=true"
              /\ fn_ret.v = PollinationsUrl(fn_call.description, fn_call.preferences)
        /\ ~PollinationsSucceeds(fn_call) => (fn_ret = None)

\* Preferences without a style: the prompt cannot be built and the strategy
\* returns None, though the service would have answered 200.
C18_Witness ==
    /\ fn_done
    /\ fn_call.fn = "_generate_with_pollinations"
    /\ "style" \notin DOMAIN fn_call.preferences
    /\ fn_call.outcome = [kind |-> "response", status_code |-> 200]
    /\ fn_ret = None

\* The service holds no Hugging Face credential: the attribute is not
\* there, is None or is the empty str.
CredentialAbsent(service) ==
    \/ "hf_api_key" \notin DOMAIN service
    \/ service.hf_api_key = None
    \/ service.hf_api_key = Str(<<>>)

\* C19: without a Hugging Face credential _generate_with_huggingface returns
\* None, sends no request and does not raise, whatever the models would have
\* answered; generate_layout_image, Pollinations having failed, then sends
\* nothing after the Pollinations request and returns an URL of the curated
\* table.
C19_NoCredentialSkipsHuggingFace ==
    /\ (/\ fn_done
        /\ fn_call.fn = "_generate_with_huggingface"
        /\ CredentialAbsent(fn_call.service)) =>
           /\ fn_ret.ret = None
           /\ fn_ret.sent = <<>>
    /\ (/\ fn_done
        /\ fn_call.fn = "generate_layout_image"
        /\ CredentialAbsent(fn_call.service)
        /\ WellFormedPreferences(fn_call.preferences)
        /\ ~PollinationsSucceeds([preferences |-> fn_call.preferences,
                                  outcome |-> fn_call.pollinations])) =>
           /\ fn_ret.sent = <<"pollinations">>
           /\ NonEmptyStr(fn_ret.ret)
           /\ Len(fn_ret.ret.v) = 1
           /\ fn_ret.ret.v[1] \in CuratedUrls

\* The credential is the empty str, Pollinations answered 500 and every
\* model would have answered with an image: the curated URL is returned and
\* no model was asked.
C19_Witness ==
    /\ fn_done
    /\ fn_call.fn = "generate_layout_image"
    /\ "hf_api_key" \in DOMAIN fn_call.service
    /\ fn_call.service.hf_api_key = Str(<<>>)
    /\ fn_call.pollinations = [kind |-> "response", status_code |-> 500]
    /\ Truthy(HfModelResult(fn_call.huggingface[1]))
    /\ fn_ret.sent = <<"pollinations">>
    /\ fn_ret.ret.v[1] \in CuratedUrls

\* An answer of a model that ends the loop: status 200, an image content
\* type and a body of more than 1000 bytes.
HfImageAnswer(outcome) ==
    /\ outcome.kind = "response"
    /\ outcome.status_code = 200
    /\ SubSeq(outcome.content_type, 1, 6) = <<"i", "m", "a", "g", "e", "/">>
    /\ outcome.content.len > 1000

\* The number of the first model with such an answer, 0 when there is none.
FirstImageAnswer(outcomes) ==
    IF \E k \in 1..3 : HfImageAnswer(outcomes[k])
    THEN CHOOSE k \in 1..3 :
             /\ HfImageAnswer(outcomes[k])
             /\ \A j \in 1..(k - 1) : ~HfImageAnswer(outcomes[j])
    ELSE 0

\* C20: with a credential, _generate_with_huggingface asks
\* stable-diffusion-xl-base-1.0, then stable-diffusion-v1-4, then
\* stable-diffusion-v1-5, each at most once, up to the first model that
\* answers 200 with an image of more than 1000 bytes; it returns
\* "data:image/png;base64," followed by the base64 text of that body and asks
\* no later model.  Every other answer moves on to the next model, and when
\* no model answers so, all three have been asked and None is returned.
C20_HuggingFaceModelOrder ==
    (/\ fn_done
     /\ fn_call.fn = "_generate_with_huggingface"
     /\ ~CredentialAbsent(fn_call.service)) =>
        LET first  == FirstImageAnswer(fn_call.outcomes)
            listed == <<"stabilityai/stable-diffusion-xl-base-1.0",
                        "CompVis/stable-diffusion-v1-4",
                        "runwayml/stable-diffusion-v1-5">>
        IN  IF first = 0
            THEN /\ fn_ret.ret = None
                 /\ fn_ret.sent = listed
            ELSE /\ fn_ret.ret = Str(<<"data:image/png;base64,",
                                       b64encode[fn_call.outcomes[first].content.bytes]>>)
                 /\ fn_ret.sent = SubSeq(listed, 1, first)

\* The first model answered 503, the second 200 with an image of exactly
\* 1000 bytes, the third 200 with a larger image: all three were asked and
\* the body of the third is returned.
C20_Witness ==
    /\ fn_done
    /\ fn_call.fn = "_generate_with_huggingface"
    /\ ~CredentialAbsent(fn_call.service)
    /\ fn_call.outcomes[1].kind = "response"
    /\ fn_call.outcomes[1].status_code = 503
    /\ fn_call.outcomes[2].kind = "response"
    /\ fn_call.outcomes[2].status_code = 200
    /\ fn_call.outcomes[2].content.len = 1000
    /\ fn_call.outcomes[3].kind = "response"
    /\ fn_call.outcomes[3].status_code = 200
    /\ fn_call.outcomes[3].content.bytes = "PNG_A"
    /\ fn_ret.sent = models
    /\ fn_ret.ret = Str(<<"data:image/png;base64,", "base64(PNG_A)">>)

\* ------------------------------------------------------------------------
\* One layout per request
\* ------------------------------------------------------------------------

\* C21: generate_layout_descriptions returns at most one description,
\* however many LAYOUT segments the text of the provider holds, so a request
\* produces at most one result record and adds at most one record to the
\* session list.
C21_AtMostOneDescription ==
    /\ Len(descriptions) <= 1
    /\ Len(results) <= 1
    /\ Len(results) <= Len(descriptions)

\* The provider answered "LAYOUT 1:\nFoo\nLAYOUT 2:\nBar", which holds two
\* segments: the request returned the one record of "Foo".
C21_Witness ==
    /\ RequestReturned
    /\ descriptions = <<Foo>>
    /\ Len(results) = 1
    /\ results[1].description = Foo
    /\ generated_layouts = results
    /\ _parse_layout_response(ExampleText) = <<Foo, Bar>>

\* ------------------------------------------------------------------------
\* The application never holds a Hugging Face credential
\* ------------------------------------------------------------------------

\* An URL of the Pollinations service.
IsPollinationsUrl(x) ==
    x.t = "str" /\ x.v # <<>> /\ x.v[1] = "https://image.pollinations.ai/prompt/"

\* An URL of the curated table.
IsCuratedUrl(x) == x.t = "str" /\ Len(x.v) = 1 /\ x.v[1] \in CuratedUrls

\* An inline reference: "data:" followed by the content.
IsDataReference(x) ==
    x.t = "str" /\ x.v # <<>> /\ x.v[1] = "data:image/png;base64,"

\* C22: in every state the application reaches from its start, the
\* hf_api_key of the service is None, no request is waiting on or has been
\* sent to a Hugging Face model, and every image reference, the one
\* generate_layout_image returned last and those of the session list, is an
\* URL of Pollinations or of the curated table and no inline data reference.
C22_NoHuggingFaceInApplication ==
    /\ (ai_service # NoService) => (ai_service.hf_api_key = None)
    /\ pc # "huggingface"
    /\ hf_model = 0
    /\ \A k \in 1..Len(calls) : calls[k] \notin Range(models)
    /\ (image_url # None) =>
          /\ IsPollinationsUrl(image_url) \/ IsCuratedUrl(image_url)
          /\ ~IsDataReference(image_url)
    /\ \A k \in 1..Len(generated_layouts) :
          /\ \/ IsPollinationsUrl(generated_layouts[k].image_url)
             \/ IsCuratedUrl(generated_layouts[k].image_url)
          /\ ~IsDataReference(generated_layouts[k].image_url)

\* Pollinations answered 500: the Hugging Face strategy was entered and left
\* without a request, and the record holds an URL of the curated table.
C22_Witness ==
    /\ RequestReturned
    /\ ai_service # NoService
    /\ ai_service.hf_api_key = None
    /\ trace = <<TryingStrategy(0), TryingStrategy(1), ExhaustedFallback>>
    /\ Len(calls) = 2
    /\ calls[2] = "pollinations"
    /\ Len(generated_layouts) = 2
    /\ IsCuratedUrl(generated_layouts[2].image_url)
    /\ IsPollinationsUrl(generated_layouts[1].image_url)

\* ------------------------------------------------------------------------
\* The curated table is complete
\* ------------------------------------------------------------------------

\* C23: the curated table holds a list of at least one URL for each of the
\* six canonical room types and each of the five canonical styles, and for
\* every pair of strings the curated fallback of generate_layout_image takes
\* the branch of the exact entry, never the branch of the room's "modern"
\* entry and never the default URL: the URL it returns is one of the list
\* of a canonical room type and a canonical style.
C23_CuratedTableComplete ==
    /\ DOMAIN curated_images = CanonicalRooms
    /\ \A r \in CanonicalRooms :
          /\ DOMAIN curated_images[r] = CanonicalStyles
          /\ \A st \in CanonicalStyles : Len(curated_images[r][st]) >= 1
    /\ (fn_done /\ fn_call.fn = "curated_fallback") =>
          /\ fn_ret.branch = "exact"
          /\ \E r \in CanonicalRooms, st \in CanonicalStyles :
                 fn_ret.ret = Str(<<ListAt(curated_images[r][st],
                                          fn_call.now % Len(curated_images[r][st]))>>)

\* Strings that are no label of the form: the fallback still reads the
\* exact entry of the living room in the modern style.
C23_Witness ==
    /\ fn_done
    /\ fn_call.fn = "curated_fallback"
    /\ fn_call.room_type = "Garage"
    /\ fn_call.style = "Coastal"
    /\ fn_call.now = 1
    /\ fn_ret.branch = "exact"
    /\ fn_ret.ret = Str(<<ListAt(curated_images["living"]["modern"], 1)>>)

\* ------------------------------------------------------------------------
\* The session list over several requests
\* ------------------------------------------------------------------------

\* The step with which a request returns to main.
RequestReturns == pc # "idle" /\ pc' = "idle"

\* C24: the session list is the concatenation, in the order of the
\* requests, of the result lists of the requests made since the last Clear
\* History.  It is empty at the start; the step that ends a request puts
\* the results of that request after the records already there, which for a
\* request without results leaves the list as it was; every other step of a
\* request leaves the list alone; Clear History empties it.
C24_SessionListIsConcatenation ==
    [][/\ RequestReturns =>
             /\ generated_layouts' = generated_layouts \o results'
             /\ (results' = <<>>) => (generated_layouts' = generated_layouts)
             /\ \A k \in 1..Len(generated_layouts) :
                    generated_layouts'[k] = generated_layouts[k]
       /\ ((pc # "idle" \/ pc' # "idle") /\ ~RequestReturns) =>
             (generated_layouts' = generated_layouts)
       /\ (\E sidebar \in Sidebars : ClearHistory(sidebar)) => (generated_layouts' = <<>>)
       /\ (generated_layouts # <<>> /\ generated_layouts' = <<>>) =>
             \E sidebar \in Sidebars : ClearHistory(sidebar)]_vars

\* A request made a record in second 0; a later request, whose provider
\* failed, returned no result and left the record in place.
C24_Witness ==
    /\ RequestReturned
    /\ results = <<>>
    /\ Len(errors) = 2
    /\ Len(generated_layouts) = 1
    /\ generated_layouts[1].generated_at = 0
    /\ clock = 1

\* ------------------------------------------------------------------------
\* Termination of the cascade
\* ------------------------------------------------------------------------

\* How often the call named c occurs among the calls of the request.
TimesCalled(c) == Cardinality({k \in 1..Len(calls) : calls[k] = c})

\* generate_layout_image is running: it waits for one of its requests.
ImageRunning == pc \in {"pollinations", "huggingface"}

\* C25: every call of generate_layout_image ends.  While it runs and after
\* it has returned, the Pollinations request occurs at most once among the
\* calls of the request and each Hugging Face model at most once, so at most
\* three requests go to Hugging Face; and whenever the function waits for a
\* request, it has returned some time later.
C25_CascadeTerminates ==
    /\ [](/\ TimesCalled("pollinations") <= 1
          /\ \A k \in 1..Len(models) : TimesCalled(models[k]) <= 1
          /\ Cardinality({k \in 1..Len(calls) : calls[k] \in Range(models)}) <= 3)
    /\ (ImageRunning ~> (pc = "idle" /\ CascadeReturned))

\* All four requests were made and failed, and the function has returned
\* the curated URL.
C25_Witness ==
    /\ pc = "idle"
    /\ CascadeReturned
    /\ Len(calls) = 5
    /\ answered = 5
    /\ TimesCalled("pollinations") = 1
    /\ \A k \in 1..Len(models) : TimesCalled(models[k]) = 1
    /\ Last(trace) = ExhaustedFallback

\* ------------------------------------------------------------------------
\* The image does not depend on the description
\* ------------------------------------------------------------------------

\* C26: for a call of generate_layout_image and any other description, the
\* same service, preferences, answers of the services and clock reading give
\* the same image prompt, the same Pollinations URL and the same returned
\* reference; the prompt is made of the style, the room type and the colours
\* of the preferences only.
C26_ImageIndependentOfDescription ==
    (fn_done /\ fn_call.fn = "generate_layout_image") =>
        \A other \in DescriptionInputs :
            /\ ({"room_type", "style"} \subseteq DOMAIN fn_call.preferences) =>
                  /\ _create_detailed_image_prompt(other, fn_call.preferences)
                        = _create_detailed_image_prompt(fn_call.description, fn_call.preferences)
                  /\ PollinationsUrl(other, fn_call.preferences)
                        = PollinationsUrl(fn_call.description, fn_call.preferences)
                  /\ \A k \in 1..Len(fn_call.description) :
                        fn_call.description[k] \notin
                            Range(_create_detailed_image_prompt(fn_call.description,
                                                                fn_call.preferences))
            /\ generate_layout_image(fn_call.service, other, fn_call.preferences,
                                     fn_call.pollinations, fn_call.huggingface, fn_call.now)
                  = fn_ret

\* The call with the description "Bar" returned the Pollinations URL that
\* the call with the description "Foo" requests.
C26_Witness ==
    /\ fn_done
    /\ fn_call.fn = "generate_layout_image"
    /\ fn_call.description = Bar
    /\ fn_call.pollinations = [kind |-> "response", status_code |-> 200]
    /\ "style" \in DOMAIN fn_call.preferences
    /\ "room_type" \in DOMAIN fn_call.preferences
    /\ fn_ret.ret = Str(PollinationsUrl(Foo, fn_call.preferences))

\* ------------------------------------------------------------------------
\* Errors of the text generators
\* ------------------------------------------------------------------------

\* C10: on an error of the provider, each of the four text generators hands
\* back an error outcome that names the provider and carries the cause, and
\* never an ordinary str.
C10_ErrorNotDeliveredAsText ==
    (fn_done /\ fn_call.fn \in TextFunctions /\ fn_call.outcome.kind = "error") =>
        /\ fn_ret.t = "raise"
        /\ Len(fn_ret.v) = 2
        /\ fn_ret.v[2] = fn_call.outcome.cause

====
